---------------------------- MODULE Spec2Model ----------------------------
(***************************************************************************)
(* Model of the AIOrchestrator of src/src/index.ts: candidate selection,   *)
(* the fallback loop of generate, and the job registry behind              *)
(* getJobResult.  Adapters are the IProviderAdapter collaborators: each    *)
(* invocation settles with a result the adapter chooses, or raises.        *)
(*                                                                         *)
(* An async method runs atomically from one await to the next, so each     *)
(* entry point is two actions: the call up to its first await, and the     *)
(* continuation that runs when the awaited adapter promise settles.        *)
(***************************************************************************)
EXTENDS Integers, Sequences, FiniteSets, TLC

\* Number of entry-point calls (generate or getJobResult) made in one run.
MaxCalls == 4

\* Number of steps the clock takes in one run.
MaxTicks == 3

\* Number of chunks the reader of one streamed response reads.
MaxChunks == 2

\* The callers.  Each awaits the call it has made before it makes the next,
\* so as many calls overlap as there are callers.
Callers == {"caller-1", "caller-2"}

\* A property that is absent on a JavaScript object.
Undefined == "<undefined>"

\* model.avg_latency_ms left out of a ModelConfig.
NoLatency == 0 - 1

\* JavaScript truthiness of an optional string.
Truthy(s) == s \notin {Undefined, ""}

(***************************************************************************)
(* Catalogs.  Costs are in hundredths of the configured unit.              *)
(***************************************************************************)
Model(id, type, cost, quality, latency) ==
    [id |-> id, type |-> type, cost |-> cost, quality |-> quality,
     avg_latency_ms |-> latency]

Provider(name, baseUrl, models) ==
    [name |-> name, baseUrl |-> baseUrl, models |-> models]

\* The configuration of the orchestrator tests (openai, google and a custom
\* provider with text models), with a video model, and with a provider that
\* initializeAdapters knows no adapter for.
TestCatalog ==
    << Provider("openai", Undefined,
            << Model("gpt-4o", "text", 100, "high", 500),
               Model("sora", "video", 500, "high", NoLatency) >>),
       Provider("google", Undefined,
            << Model("gemini-flash", "text", 10, "medium", 200) >>),
       Provider("custom", "http://localhost:8080",
            << Model("local-llama", "text", 0, "low", 800) >>),
       Provider("anthropic", Undefined,
            << Model("claude-image", "image", 5, "high", 300),
               Model("claude-video", "video", 50, "medium", NoLatency) >>) >>

Catalogs == {TestCatalog}

Request(type, strategy, quality) ==
    [type |-> type, strategy |-> strategy, quality |-> quality]

Requests ==
    { Request("text", Undefined, Undefined),
      Request("video", "cost", Undefined),
      Request("image", "quality", Undefined),
      Request("audio", Undefined, Undefined) }

(***************************************************************************)
(* String.prototype.toLowerCase on the provider names in use.              *)
(***************************************************************************)
toLowerCase(s) ==
    CASE s = "OpenAI" -> "openai"
      [] s = "Google" -> "google"
      [] s = "Custom" -> "custom"
      [] OTHER -> s

(***************************************************************************)
(* initializeAdapters: the adapters map after the constructor's loop.  A   *)
(* later descriptor with the same key overwrites an earlier one.           *)
(***************************************************************************)
AdapterKey(provider) ==
    LET n == toLowerCase(provider.name) IN
    CASE n = "openai" -> "openai"
      [] n = "google" -> "google"
      [] n = "custom" -> IF Truthy(provider.baseUrl) THEN "custom" ELSE Undefined
      [] OTHER -> Undefined

initializeAdapters(providers) ==
    LET keys == {AdapterKey(providers[k]) : k \in 1..Len(providers)} \ {Undefined}
        last(key) == CHOOSE k \in 1..Len(providers) :
                        /\ AdapterKey(providers[k]) = key
                        /\ \A m \in (k+1)..Len(providers) :
                              AdapterKey(providers[m]) # key
    IN  [key \in keys |-> [name |-> providers[last(key)].name,
                           provider |-> providers[last(key)],
                           checkJobStatus |-> TRUE]]

(***************************************************************************)
(* getSortedProviders.                                                     *)
(***************************************************************************)
RECURSIVE flatMap(_, _)
flatMap(providers, k) ==
    IF k > Len(providers) THEN << >>
    ELSE [m \in 1..Len(providers[k].models) |->
              [provider |-> providers[k], model |-> providers[k].models[m]]]
         \o flatMap(providers, k + 1)

\* Variant: the ranks run the other way.
qualityOrderOfLowFirst(q) ==
    CASE q = "high" -> 3 [] q = "medium" -> 2 [] q = "low" -> 1

qualityOrder(q) ==
    CASE q = "high" -> 1 [] q = "medium" -> 2 [] q = "low" -> 3

\* Variant: a latency that is not configured counts as the number it is
\* modelled by, not as Infinity.
compareWithoutInfinity(strategy, a, b) ==
    LET sign(d) == IF d < 0 THEN 0 - 1 ELSE IF d > 0 THEN 1 ELSE 0
    IN  CASE strategy = "latency" ->
                 sign(a.model.avg_latency_ms - b.model.avg_latency_ms)
          [] strategy = "quality" ->
                 sign(qualityOrder(a.model.quality) - qualityOrder(b.model.quality))
          [] OTHER -> sign(a.model.cost - b.model.cost)

\* The sign of the comparator the strategy passes to Array.prototype.sort;
\* Infinity - Infinity is NaN, which sort treats as 0.
compare(strategy, a, b) ==
    LET sign(d) == IF d < 0 THEN 0 - 1 ELSE IF d > 0 THEN 1 ELSE 0
        la == a.model.avg_latency_ms
        lb == b.model.avg_latency_ms
    IN  CASE strategy = "latency" ->
                 IF la = NoLatency /\ lb = NoLatency THEN 0
                 ELSE IF la = NoLatency THEN 1
                 ELSE IF lb = NoLatency THEN 0 - 1
                 ELSE sign(la - lb)
          [] strategy = "quality" ->
                 sign(qualityOrder(a.model.quality) - qualityOrder(b.model.quality))
          [] OTHER -> sign(a.model.cost - b.model.cost)

\* Variant: the sort is not stable: x goes before the elements it ties with.
RECURSIVE insertBeforeTies(_, _, _)
insertBeforeTies(sorted, x, strategy) ==
    IF sorted = << >> THEN << x >>
    ELSE IF compare(strategy, Head(sorted), x) < 0
         THEN << Head(sorted) >> \o insertBeforeTies(Tail(sorted), x, strategy)
         ELSE << x >> \o sorted

\* Array.prototype.sort is stable: x goes behind every element that does
\* not compare greater than it.
RECURSIVE insert(_, _, _)
insert(sorted, x, strategy) ==
    IF sorted = << >> THEN << x >>
    ELSE IF compare(strategy, Head(sorted), x) <= 0
         THEN << Head(sorted) >> \o insert(Tail(sorted), x, strategy)
         ELSE << x >> \o sorted

\* Variant: the list is left in the order of the catalog.
sortNothing(seq, strategy) == seq

RECURSIVE sort(_, _)
sort(seq, strategy) ==
    IF seq = << >> THEN << >>
    ELSE insert(sort(SubSeq(seq, 1, Len(seq) - 1), strategy), seq[Len(seq)], strategy)

\* Variant: the quality filter is not applied.
getSortedProvidersOfAnyQuality(providers, request) ==
    LET strategy == IF request.strategy = Undefined THEN "cost" ELSE request.strategy
        ofType(c) == c.model.type = request.type
    IN  sort(SelectSeq(flatMap(providers, 1), ofType), strategy)

getSortedProviders(providers, request) ==
    LET strategy == IF request.strategy = Undefined THEN "cost" ELSE request.strategy
        ofType(c) == c.model.type = request.type
        ofQuality(c) == c.model.quality = request.quality
        typed == SelectSeq(flatMap(providers, 1), ofType)
        candidates == IF Truthy(request.quality) THEN SelectSeq(typed, ofQuality) ELSE typed
    IN  sort(candidates, strategy)

\* Variant: sort orders the array of models of each provider where it stands.
providersSortedInPlace(providers, request) ==
    LET strategy == IF request.strategy = Undefined THEN "cost" ELSE request.strategy
        pairs(p) == [m \in 1..Len(p.models) |-> [provider |-> p, model |-> p.models[m]]]
        models(p) == LET sorted == sort(pairs(p), strategy)
                     IN  [m \in 1..Len(sorted) |-> sorted[m].model]
    IN  [k \in 1..Len(providers) |-> [providers[k] EXCEPT !.models = models(providers[k])]]

\* this.config.providers after getSortedProviders: flatMap and filter build
\* arrays of their own, and sort orders the array they built.
providersAfterSelection(providers, request) == providers


(***************************************************************************)
(* Results.  Every result has the same fields; an absent one is Undefined. *)
(***************************************************************************)
Result(status, provider, model, data, error, jobId) ==
    [status |-> status, provider |-> provider, model |-> model,
     data |-> data, error |-> error, orchestratorJobId |-> jobId]

NoResult == Result(Undefined, Undefined, Undefined, Undefined, Undefined, Undefined)

NoSuitableProvider ==
    Result("failed", "none", "none", Undefined, "No suitable provider found.", Undefined)

AllProvidersFailed ==
    Result("failed", "none", "none", Undefined, "All configured providers failed.", Undefined)

\* Variant: the error does not say which provider it is.
NoStatusChecksOfSomeProvider(providerName) ==
    Result("failed", Undefined, Undefined, Undefined,
           "Provider does not support job status checks.", Undefined)

NoStatusChecks(providerName) ==
    Result("failed", Undefined, Undefined, Undefined,
           "Provider '" \o providerName \o "' does not support job status checks.",
           Undefined)

\* Variant: the missing job falls through to the capability check.
JobNotFoundFallsThrough == NoStatusChecks(Undefined)

JobNotFound ==
    Result("failed", Undefined, Undefined, Undefined,
           "Job not found or already completed.", Undefined)

(***************************************************************************)
(* What an adapter may answer.  Adapters echo their own provider name and  *)
(* the model id they were given.                                           *)
(***************************************************************************)
ProviderJobIds == {"job-1", "job-2"}

Returned(result) == [raised |-> FALSE, result |-> result]

Raised == [raised |-> TRUE, result |-> NoResult]

GenerateOutcomes(adapterName, modelId) ==
    { Returned(Result("completed", adapterName, modelId, "content", Undefined, Undefined)),
      Returned(Result("failed", adapterName, modelId, Undefined, "provider error", Undefined)),
      Returned(Result("pending", adapterName, modelId, Undefined, Undefined, Undefined)),
      Raised }
    \cup { Returned(Result("pending", adapterName, modelId, Undefined, Undefined, j)) :
             j \in ProviderJobIds }

StatusOutcomes ==
    { Returned(Result("pending", Undefined, Undefined, Undefined, Undefined, Undefined)),
      Returned(Result("completed", Undefined, Undefined, "content", Undefined, Undefined)),
      Returned(Result("failed", Undefined, Undefined, Undefined, "job error", Undefined)),
      Raised }

(***************************************************************************)
(* State.                                                                  *)
(***************************************************************************)
VARIABLES
    config,      \* this.config.providers
    adapters,    \* this.adapters
    activeJobs,  \* this.activeJobs
    calls,       \* per caller: its call in flight, or the one that settled in the last step
    made,        \* the number of entry-point calls made so far
    finished,    \* history: ids for which a status check has answered completed or failed
    retired,     \* history: the ids of finished that no generate has registered since
    registered,  \* history: every (id, provider name, provider job id) generate has registered
    clock,               \* Date.now()
    healthCheckEndpoint, \* CustomAdapter: this.healthCheckEndpoint
    healthStatus,        \* CustomAdapter: this.healthStatus
    gate,                \* per caller: its call of a gated CustomAdapter method
    probes,              \* history: the times at which a health probe was issued
    customConfig,        \* CustomAdapter: this.config, the response extraction paths
    rendering,           \* a call of _buildRequestBody: its arguments and what it returned
    jobStores,           \* openAIJobStore and googleJobStore: job id -> attempts
    promised,            \* per caller: what the adapter promise it awaits resolves with
    jobLog               \* history: per job started, its adapter, its id and the
                         \* answers of the status checks of that id since

healthVars ==
    << clock, healthCheckEndpoint, healthStatus, gate, probes, customConfig, rendering,
       jobStores, promised, jobLog >>

orchestratorVars ==
    << config, adapters, activeJobs, calls, made, finished, retired, registered >>

vars == << config, adapters, activeJobs, calls, made, finished, retired, registered,
           clock, healthCheckEndpoint, healthStatus, gate, probes, customConfig, rendering,
           jobStores, promised, jobLog >>

Call(kind, pc, request, jobId, candidates, i, invoked, outcomes, result, late, stale) ==
    [kind |-> kind, pc |-> pc, request |-> request, jobId |-> jobId,
     candidates |-> candidates, i |-> i, invoked |-> invoked,
     outcomes |-> outcomes, result |-> result, late |-> late, stale |-> stale]

NoRequest == Request(Undefined, Undefined, Undefined)

NoCall == Call("none", "idle", NoRequest, Undefined, << >>, 0, << >>, << >>, NoResult,
               FALSE, FALSE)

\* A record of the log of adapter operations a call has invoked; candidate is
\* the index of the candidate that generate dispatched.
Invocation(op, adapter, arg, candidate) ==
    [op |-> op, adapter |-> adapter, arg |-> arg, candidate |-> candidate]

(***************************************************************************)
(* The CustomAdapter behind the health gate.  Times are in milliseconds.   *)
(***************************************************************************)
healthCacheTTL == 60 * 1000

HealthStatus(isHealthy, lastChecked) == [isHealthy |-> isHealthy, lastChecked |-> lastChecked]

\* A call of generate, generateStream or embedContent.  pc is its place in
\* checkHealth; now and seen are what checkHealth read from the clock and
\* from this.healthStatus, probed is whether it fetched the health
\* endpoint, isHealthy is what it returned.  requested is whether the call
\* went on to fetch the backend, response is what that fetch of generate
\* settled with, result is what generate returned, and elements are what
\* generateStream has yielded.
GatedCall(op, pc, now, seen, probed, isHealthy, requested, response, result, elements) ==
    [op |-> op, pc |-> pc, now |-> now, seen |-> seen, probed |-> probed,
     isHealthy |-> isHealthy, requested |-> requested, response |-> response,
     result |-> result, elements |-> elements]

\* The backend has not answered.
NoResponse == [kind |-> "none", body |-> [t |-> "undefined", v |-> Undefined]]

NoGatedCall ==
    GatedCall("none", "idle", 0, HealthStatus(FALSE, 0), FALSE, FALSE, FALSE,
              NoResponse, NoResult, << >>)

\* The response extraction paths of a custom provider: the responseExtractor
\* of the provider and the one of the model the calls name.
CustomConfig(responseExtractor, modelResponseExtractor) ==
    [responseExtractor |-> responseExtractor,
     modelResponseExtractor |-> modelResponseExtractor]

\* A call of _buildRequestBody with a template, a prompt and a model id;
\* body is what it has returned, threw is whether it raised instead.
Rendering(template, prompt, modelId, pc, threw, body) ==
    [template |-> template, prompt |-> prompt, modelId |-> modelId,
     pc |-> pc, threw |-> threw, body |-> body]

NoRendering == Rendering(<< >>, << >>, << >>, "none", FALSE, << >>)

\* The job stores of the OpenAI and Google adapter modules as loaded, and
\* no adapter promise awaited.
NoJobs ==
    /\ jobStores = [openai |-> << >>, google |-> << >>]
    /\ promised = [caller \in Callers |-> Returned(NoResult)]
    /\ jobLog = << >>

\* The adapter after its constructor, with the health-check path of its
\* configuration ("" when there is none), at a time of day at which the
\* initial status, checked at 0, has long expired.
CustomAdapterInit(endpoint) ==
    /\ healthCheckEndpoint = endpoint
    /\ healthStatus = HealthStatus(FALSE, 0)
    /\ gate = [caller \in Callers |-> NoGatedCall]
    /\ probes = << >>
    /\ clock = healthCacheTTL

Init ==
    /\ CustomAdapterInit("")
    /\ customConfig = CustomConfig(Undefined, Undefined)
    /\ rendering = NoRendering
    /\ NoJobs
    /\ config \in Catalogs
    /\ adapters = initializeAdapters(config)
    /\ activeJobs = << >>
    /\ calls = [caller \in Callers |-> NoCall]
    /\ made = 0
    /\ finished = {}
    /\ retired = {}
    /\ registered = {}

\* A settled call is gone once its caller has resumed, which is before
\* anything else runs.
settled(call) == call.pc \in {"done", "raised"}

\* The calls after a step that takes the call of caller c on to next.
continue(c, next) ==
    [caller \in Callers |->
        IF caller = c THEN next
        ELSE IF settled(calls[caller]) THEN NoCall ELSE calls[caller]]

\* Caller c may make a call.
free(c) == calls[c].pc \in {"idle", "done", "raised"}

Put(map, key, value) == [k \in DOMAIN map \cup {key} |-> IF k = key THEN value ELSE map[k]]

Delete(map, key) == [k \in DOMAIN map \ {key} |-> map[k]]

(***************************************************************************)
(* generate                                                                *)
(***************************************************************************)
\* Variant: the loop starts over from the candidate before i.
nextAttemptRetries(adapterMap, candidates, i) ==
    IF i > Len(candidates) + 1 THEN 0
    ELSE IF i > 1 /\ candidates[i - 1].provider.name \in DOMAIN adapterMap THEN i - 1
    ELSE IF i <= Len(candidates) /\ candidates[i].provider.name \in DOMAIN adapterMap THEN i
    ELSE 0

\* Variant: the loop ends at a candidate whose provider has no adapter.
nextAttemptStopsAtMissing(adapterMap, candidates, i) ==
    IF i > Len(candidates) THEN 0
    ELSE IF candidates[i].provider.name \in DOMAIN adapterMap THEN i
    ELSE 0

\* The for loop from candidate i on, up to the first candidate whose
\* provider has an adapter: its index, or 0 when the loop runs out.
RECURSIVE nextAttempt(_, _, _)
nextAttempt(adapterMap, candidates, i) ==
    IF i > Len(candidates) THEN 0
    ELSE IF candidates[i].provider.name \in DOMAIN adapterMap THEN i
    ELSE nextAttempt(adapterMap, candidates, i + 1)

\* Variant: the empty candidate list is not checked for.
noCandidatesUnchecked(candidates) == FALSE

\* candidateProviders.length === 0
noCandidates(candidates) == Len(candidates) = 0

\* Variant: a completed result is not returned.
afterAttemptDropsCompleted(outcome) ==
    IF outcome.raised THEN "next"
    ELSE IF outcome.result.status = "pending" /\ Truthy(outcome.result.orchestratorJobId)
         THEN "register"
    ELSE "next"

\* Variant: a failed result is returned instead of trying the next candidate.
afterAttemptReturnsFailure(outcome) ==
    IF outcome.raised THEN "next"
    ELSE IF outcome.result.status = "pending" /\ Truthy(outcome.result.orchestratorJobId)
         THEN "register"
    ELSE IF outcome.result.status \in {"completed", "failed"} THEN "return"
    ELSE "next"

\* Variant: a pending result is never registered.
afterAttemptIgnoresJob(outcome) ==
    IF outcome.raised THEN "next"
    ELSE IF outcome.result.status = "completed" THEN "return"
    ELSE "next"

\* Variant: a pending result is returned as it is, with or without a job id.
afterAttemptReturnsPending(outcome) ==
    IF outcome.raised THEN "next"
    ELSE IF outcome.result.status \in {"pending", "completed"} THEN "return"
    ELSE "next"

\* Variant: there is no catch around the adapter call.
afterAttemptRethrows(outcome) ==
    IF outcome.raised THEN "throw"
    ELSE IF outcome.result.status = "pending" /\ Truthy(outcome.result.orchestratorJobId)
         THEN "register"
    ELSE IF outcome.result.status = "completed" THEN "return"
    ELSE "next"

\* What the loop body does with a settled adapter.generate.
afterAttempt(outcome) ==
    IF outcome.raised THEN "next"
    ELSE IF outcome.result.status = "pending" /\ Truthy(outcome.result.orchestratorJobId)
         THEN "register"
    ELSE IF outcome.result.status = "completed" THEN "return"
    ELSE "next"

\* The call from candidate i on: it awaits the next adapter or returns.
attempt(call, i) ==
    LET k == nextAttempt(adapters, call.candidates, i) IN
    IF k = 0
    THEN [call EXCEPT !.pc = "done", !.result = AllProvidersFailed]
    ELSE [call EXCEPT !.pc = "awaitGenerate", !.i = k,
                      !.invoked = Append(@, Invocation("generate",
                                      call.candidates[k].provider.name,
                                      call.candidates[k].model.id, k))]

Generate(c, request) ==
    /\ free(c)
    /\ made < MaxCalls
    /\ made' = made + 1
    /\ LET candidates == getSortedProviders(config, request)
           call == Call("generate", "running", request, Undefined, candidates, 0,
                        << >>, << >>, NoResult, FALSE, FALSE)
       IN  calls' = continue(c, IF noCandidates(candidates)
                          THEN [call EXCEPT !.pc = "done", !.result = NoSuitableProvider]
                          ELSE attempt(call, 1))
    /\ config' = providersAfterSelection(config, request)
    /\ UNCHANGED << adapters, activeJobs, finished, retired, registered >>
    /\ UNCHANGED healthVars

\* Variant: the provider name is left out of the hashed string.
createOrchestratorJobIdOfJobOnly(providerName, providerJobId) ==
    "sha256(" \o providerJobId \o ")"

\* Variant: the provider job id is left out of the hashed string.
createOrchestratorJobIdOfProviderOnly(providerName, providerJobId) ==
    "sha256(" \o providerName \o ")"

\* Variant: the id is drawn anew for every call, as a counter would.
createOrchestratorJobIdPerCall(providerName, providerJobId) ==
    "sha256(" \o providerName \o "-" \o providerJobId \o "-" \o ToString(made) \o ")"

\* sha256 is taken to be injective: the digest stands for the string hashed.
createOrchestratorJobId(providerName, providerJobId) ==
    "sha256(" \o providerName \o "-" \o providerJobId \o ")"

registeredJob(providerName, result) ==
    [providerName |-> providerName, providerJobId |-> result.orchestratorJobId]

\* History of line 70: the key, and the pair stored under it.
Registration(id, providerName, result) ==
    [id |-> id, providerName |-> providerName, providerJobId |-> result.orchestratorJobId]

GenerateSettles(c, outcome) ==
    LET call == calls[c]
        provider == call.candidates[call.i].provider
        seen == [call EXCEPT !.outcomes = Append(@, outcome)]
        todo == afterAttempt(outcome)
        id == createOrchestratorJobId(provider.name, outcome.result.orchestratorJobId)
    IN  /\ call.pc = "awaitGenerate"
        /\ outcome \in GenerateOutcomes(adapters[provider.name].name,
                                        call.candidates[call.i].model.id)
        /\ calls' = continue(c,
              CASE todo = "register" ->
                     [seen EXCEPT !.pc = "done",
                                  !.result = [outcome.result EXCEPT !.orchestratorJobId = id]]
                [] todo = "return" -> [seen EXCEPT !.pc = "done", !.result = outcome.result]
                [] todo = "next" -> attempt(seen, call.i + 1)
                [] OTHER -> [seen EXCEPT !.pc = "raised"])
        /\ activeJobs' = IF todo = "register"
                         THEN Put(activeJobs, id, registeredJob(provider.name, outcome.result))
                         ELSE activeJobs
        /\ retired' = IF todo = "register" THEN retired \ {id} ELSE retired
        /\ registered' = IF todo = "register"
                         THEN registered \cup {Registration(id, provider.name, outcome.result)}
                         ELSE registered
        /\ UNCHANGED << config, adapters, made, finished >>
        /\ UNCHANGED healthVars

(***************************************************************************)
(* getJobResult                                                            *)
(***************************************************************************)
\* The ids a caller polls: those generate has handed out, and one it has not.
UnknownJobId == "sha256(nothing)"

PollableIds == DOMAIN activeJobs \cup finished \cup {UnknownJobId}

GetJobResult(c, orchestratorJobId) ==
    /\ free(c)
    /\ made < MaxCalls
    /\ made' = made + 1
    /\ orchestratorJobId \in PollableIds
    /\ LET call == Call("getJobResult", "running", NoRequest, orchestratorJobId,
                        << >>, 0, << >>, << >>, NoResult,
                        orchestratorJobId \in finished, orchestratorJobId \in retired)
       IN  calls' = continue(c, 
                IF orchestratorJobId \notin DOMAIN activeJobs
                THEN [call EXCEPT !.pc = "done", !.result = JobNotFound]
                ELSE LET job == activeJobs[orchestratorJobId] IN
                     IF \/ job.providerName \notin DOMAIN adapters
                        \/ ~adapters[job.providerName].checkJobStatus
                     THEN [call EXCEPT !.pc = "done",
                                       !.result = NoStatusChecks(job.providerName)]
                     ELSE [call EXCEPT !.pc = "awaitStatus",
                                       !.invoked = << Invocation("checkJobStatus",
                                                        job.providerName,
                                                        job.providerJobId, 0) >>])
    /\ UNCHANGED << config, adapters, activeJobs, finished, retired, registered >>
    /\ UNCHANGED healthVars

\* Variant: a failed job stays registered.
jobIsFinishedWhenCompleted(result) == result.status = "completed"

\* Variant: every answer of the status check retires the job.
jobIsFinishedAlways(result) == result.status \in {"pending", "completed", "failed"}

\* result.status === 'completed' || result.status === 'failed'
jobIsFinished(result) == result.status \in {"completed", "failed"}

GetJobResultSettles(c, outcome) ==
    LET call == calls[c]
        seen == [call EXCEPT !.outcomes = Append(@, outcome)]
        over == ~outcome.raised /\ jobIsFinished(outcome.result)
        answered == ~outcome.raised /\ outcome.result.status \in {"completed", "failed"}
    IN  /\ call.pc = "awaitStatus"
        /\ outcome \in StatusOutcomes
        /\ calls' = continue(c,
              IF outcome.raised THEN [seen EXCEPT !.pc = "raised"]
              ELSE [seen EXCEPT !.pc = "done", !.result = outcome.result])
        /\ activeJobs' = IF over THEN Delete(activeJobs, call.jobId) ELSE activeJobs
        /\ finished' = IF answered THEN finished \cup {call.jobId} ELSE finished
        /\ retired' = IF answered THEN retired \cup {call.jobId} ELSE retired
        /\ UNCHANGED << config, adapters, made, registered >>
        /\ UNCHANGED healthVars

\* The adapter behind the invocation call c awaits, and the model id it was given.
awaited(c) ==
    IF calls[c].pc = "awaitGenerate"
    THEN [name |-> adapters[calls[c].candidates[calls[c].i].provider.name].name,
          model |-> calls[c].candidates[calls[c].i].model.id]
    ELSE [name |-> Undefined, model |-> Undefined]

Next ==
    \/ \E c \in Callers : \E request \in Requests : Generate(c, request)
    \/ \E c \in Callers :
          \E outcome \in GenerateOutcomes(awaited(c).name, awaited(c).model) :
             GenerateSettles(c, outcome)
    \/ \E c \in Callers : \E id \in PollableIds : GetJobResult(c, id)
    \/ \E c \in Callers : \E outcome \in StatusOutcomes : GetJobResultSettles(c, outcome)

Spec == Init /\ [][Next]_vars

(***************************************************************************)
(* The orchestrator of a catalog whose custom provider has no baseUrl.     *)
(***************************************************************************)
\* new CustomAdapter(provider) throws.
CustomAdapterThrows(provider) == ~Truthy(provider.baseUrl)

\* new AIOrchestrator({ providers }) throws.  initializeAdapters constructs
\* a CustomAdapter only inside if (provider.baseUrl) and logs an error
\* otherwise; the providers of the catalogs in use have an API key each.
constructorThrows(providers) ==
    \E k \in 1..Len(providers) :
        /\ toLowerCase(providers[k].name) = "custom"
        /\ Truthy(providers[k].baseUrl)
        /\ CustomAdapterThrows(providers[k])

\* A custom provider without baseUrl, and google.
MisconfiguredCatalog ==
    << Provider("custom", Undefined,
            << Model("local-llama", "text", 0, "low", 800) >>),
       Provider("google", Undefined,
            << Model("gemini-flash", "text", 10, "medium", 200) >>) >>

InitMisconfigured ==
    /\ CustomAdapterInit("")
    /\ customConfig = CustomConfig(Undefined, Undefined)
    /\ rendering = NoRendering
    /\ NoJobs
    /\ config \in { providers \in {MisconfiguredCatalog} : ~constructorThrows(providers) }
    /\ adapters = initializeAdapters(config)
    /\ activeJobs = << >>
    /\ calls = [caller \in Callers |-> NoCall]
    /\ made = 0
    /\ finished = {}
    /\ retired = {}
    /\ registered = {}

NextMisconfigured ==
    \/ \E c \in Callers : \E request \in {Request("text", Undefined, Undefined)} :
          Generate(c, request)
    \/ \E c \in Callers :
          \E outcome \in GenerateOutcomes(awaited(c).name, awaited(c).model) :
             GenerateSettles(c, outcome)

SpecMisconfigured == InitMisconfigured /\ [][NextMisconfigured]_vars

(***************************************************************************)
(* The selector on its own: generate calls, each stopped at its first      *)
(* await, over catalogs in every order of their providers.                 *)
(***************************************************************************)
\* A catalog whose text models tie in cost, in latency and in quality tier,
\* two of them with no latency configured, and whose one image model is of
\* low quality.
TiedCatalog ==
    << Provider("openai", Undefined,
            << Model("o-1", "text", 10, "medium", NoLatency),
               Model("o-2", "text", 10, "high", 300),
               Model("o-3", "image", 5, "low", 100) >>),
       Provider("google", Undefined,
            << Model("g-1", "text", 10, "medium", 300) >>),
       Provider("custom", "http://localhost:8080",
            << Model("c-1", "text", 0, "low", NoLatency),
               Model("c-2", "text", 20, "high", 100) >>) >>

\* The catalogs that list the providers of a catalog in some order.
orderings(providers) ==
    { [k \in 1..Len(providers) |-> providers[f[k]]] :
        f \in Permutations(1..Len(providers)) }

SelectorCatalogs == orderings(TiedCatalog) \cup orderings(TestCatalog)

SelectorRequests ==
    { Request(type, strategy, quality) :
        type \in {"text", "image", "audio"},
        strategy \in {Undefined, "cost", "latency", "quality"},
        quality \in {Undefined, "high"} }

InitSelector ==
    /\ CustomAdapterInit("")
    /\ customConfig = CustomConfig(Undefined, Undefined)
    /\ rendering = NoRendering
    /\ NoJobs
    /\ config \in SelectorCatalogs
    /\ adapters = initializeAdapters(config)
    /\ activeJobs = << >>
    /\ calls = [caller \in Callers |-> NoCall]
    /\ made = 0
    /\ finished = {}
    /\ retired = {}
    /\ registered = {}

NextSelector ==
    \E c \in Callers : \E request \in SelectorRequests : Generate(c, request)

SpecSelector == InitSelector /\ [][NextSelector]_vars

(***************************************************************************)
(* The selector on the catalog of the README's Quick Start.                *)
(***************************************************************************)
QuickStartCatalog ==
    << Provider("openai", Undefined,
            << Model("gpt-4o-mini", "text", 15, "high", NoLatency),
               Model("dall-e-3", "image", 4, "high", NoLatency),
               Model("sora", "video", 100, "high", NoLatency) >>),
       Provider("google", Undefined,
            << Model("gemini-1.5-flash-latest", "text", 0, "medium", NoLatency) >>),
       Provider("custom", "http://localhost:8080",
            << Model("my-local-model", "text", 0, "low", NoLatency) >>) >>

InitQuickStart ==
    /\ CustomAdapterInit("")
    /\ customConfig = CustomConfig(Undefined, Undefined)
    /\ rendering = NoRendering
    /\ NoJobs
    /\ config = QuickStartCatalog
    /\ adapters = initializeAdapters(config)
    /\ activeJobs = << >>
    /\ calls = [caller \in Callers |-> NoCall]
    /\ made = 0
    /\ finished = {}
    /\ retired = {}
    /\ registered = {}

SpecQuickStart == InitQuickStart /\ [][NextSelector]_vars

(***************************************************************************)
(* The job registry on its own.  checkJobStatus is optional on an adapter  *)
(* (line 97 tests for it), so here each adapter has it or lacks it; the    *)
(* requests are those with one dispatchable candidate, one per adapter.    *)
(***************************************************************************)
\* The adapters map when the adapters of the names in capable, and no
\* others, have a checkJobStatus method.
withStatusChecks(adapterMap, capable) ==
    [key \in DOMAIN adapterMap |->
        [adapterMap[key] EXCEPT !.checkJobStatus = (key \in capable)]]

JobRequests ==
    { Request("video", "cost", Undefined),
      Request("text", Undefined, "medium"),
      Request("text", "quality", "low") }

InitJobs ==
    /\ CustomAdapterInit("")
    /\ customConfig = CustomConfig(Undefined, Undefined)
    /\ rendering = NoRendering
    /\ NoJobs
    /\ config \in Catalogs
    /\ \E capable \in SUBSET DOMAIN initializeAdapters(config) :
          adapters = withStatusChecks(initializeAdapters(config), capable)
    /\ activeJobs = << >>
    /\ calls = [caller \in Callers |-> NoCall]
    /\ made = 0
    /\ finished = {}
    /\ retired = {}
    /\ registered = {}

NextJobs ==
    \/ \E c \in Callers : \E request \in JobRequests : Generate(c, request)
    \/ \E c \in Callers :
          \E outcome \in GenerateOutcomes(awaited(c).name, awaited(c).model) :
             GenerateSettles(c, outcome)
    \/ \E c \in Callers : \E id \in PollableIds : GetJobResult(c, id)
    \/ \E c \in Callers : \E outcome \in StatusOutcomes : GetJobResultSettles(c, outcome)

SpecJobs == InitJobs /\ [][NextJobs]_vars


(***************************************************************************)
(* JSON values, as response.json() parses them.  An array keeps element k  *)
(* of JavaScript at k + 1.                                                 *)
(***************************************************************************)
JUndefined == [t |-> "undefined", v |-> Undefined]

JString(s) == [t |-> "string", v |-> s]

JNumber(n) == [t |-> "number", v |-> n]

JArray(elements) == [t |-> "array", v |-> elements]

JObject(properties) == [t |-> "object", v |-> properties]

\* JavaScript truthiness of a JSON value.
JTruthy(j) ==
    CASE j.t = "undefined" -> FALSE
      [] j.t = "string" -> j.v # ""
      [] j.t = "number" -> j.v # 0
      [] OTHER -> TRUE

\* a || b
JOr(a, b) == IF JTruthy(a) THEN a ELSE b

\* The index a path segment names, or -1.
indexOf(part) ==
    CASE part = "0" -> 0 [] part = "1" -> 1 [] part = "2" -> 2 [] OTHER -> 0 - 1

\* acc[part].  No path in use names a property of a string or of a number
\* that they have.
JGet(acc, part) ==
    CASE acc.t = "object" -> IF part \in DOMAIN acc.v THEN acc.v[part] ELSE JUndefined
      [] acc.t = "array" ->
             IF indexOf(part) >= 0 /\ indexOf(part) < Len(acc.v)
             THEN acc.v[indexOf(part) + 1]
             ELSE IF part = "length" THEN JNumber(Len(acc.v)) ELSE JUndefined
      [] OTHER -> JUndefined

\* path.split(/[.[\]]+/).filter(Boolean), for the paths in use.
split(path) ==
    CASE path = "data" -> << "data" >>
      [] path = "result.text" -> << "result", "text" >>
      [] path = "choices[0].text" -> << "choices", "0", "text" >>
      [] path = "" -> << >>

\* reduce((acc, part) => acc && acc[part], obj) over the parts from k on.
RECURSIVE reduce(_, _, _)
reduce(acc, parts, k) ==
    IF k > Len(parts) THEN acc
    ELSE reduce(IF JTruthy(acc) THEN JGet(acc, parts[k]) ELSE acc, parts, k + 1)

getNestedProperty(obj, path) == reduce(obj, split(path), 1)

\* A string-valued or absent property as it stands in a result.
plain(j) == IF j.t = "undefined" THEN Undefined ELSE j.v

(***************************************************************************)
(* CustomAdapter.generate behind the gate.                                 *)
(***************************************************************************)
\* The model the calls name, and config.name.
CustomModelId == "local-llama"

CustomName == "custom"

\* An element of the sequence generateStream yields.
StreamElement(status) == [status |-> status, provider |-> CustomName, model |-> CustomModelId]

\* The element ends the sequence.
isTerminal(element) == element.status \in {"completed", "error"}

Unhealthy ==
    Result("failed", CustomName, CustomModelId, Undefined,
           "Custom server is unhealthy or unreachable.", Undefined)

\* What the fetch of the backend settles with: a rejection, a response that
\* is not ok, a response whose body is no JSON, or a response with a body.
Rejected == [kind |-> "rejected", body |-> JUndefined]

NotOk == [kind |-> "notOk", body |-> JUndefined]

NotJson == [kind |-> "notJson", body |-> JUndefined]

Ok(body) == [kind |-> "ok", body |-> body]

\* `${x}` of an optional string.
interpolated(x) == IF x = Undefined THEN "undefined" ELSE x

\* Variant: the message cites the path that was used for the model.
citedPathOfModel(cfg) ==
    IF Truthy(cfg.modelResponseExtractor) THEN cfg.modelResponseExtractor
    ELSE cfg.responseExtractor

\* The path the message of line 163 cites: this.config.responseExtractor.
citedPath(cfg) == cfg.responseExtractor

\* Lines 139-182: the result of generate for what the fetch settled with.
resultOfResponse(cfg, response) ==
    LET failed(message) ==
            Result("failed", CustomName, CustomModelId, Undefined, message, Undefined)
        responseExtractor ==
            IF Truthy(cfg.modelResponseExtractor) THEN cfg.modelResponseExtractor
            ELSE cfg.responseExtractor
        extractedData ==
            IF Truthy(responseExtractor)
            THEN getNestedProperty(response.body, responseExtractor)
            ELSE JOr(JGet(response.body, "data"), JGet(response.body, "text"))
    IN  CASE response.kind = "rejected" -> failed("fetch failed")
          [] response.kind = "notOk" ->
                 failed("Custom server returned an error: 500 Internal Server Error")
          [] response.kind = "notJson" -> failed("Unexpected token < in JSON at position 0")
          [] OTHER ->
                 IF extractedData.t # "string"
                 THEN failed("Response extractor path \"" \o interpolated(citedPath(cfg))
                                \o "\" did not yield a string.")
                 ELSE Result("completed", CustomName, CustomModelId, extractedData.v,
                             plain(JGet(response.body, "error")),
                             plain(JGet(response.body, "jobId")))

(***************************************************************************)
(* The health gate of the CustomAdapter on its own: gated calls of two     *)
(* callers, the clock, and the health probes they await.                   *)
(***************************************************************************)
\* The clock advances by half the time the cache lives.
TickMs == healthCacheTTL \div 2

GatedOps == {"generate", "generateStream", "embedContent"}

\* What fetch of the health endpoint settles with: a response that is ok, a
\* response that is not, or a rejection.
ProbeOutcomes == {"ok", "notOk", "raised"}

\* Variant: the health endpoint is fetched whether or not a path is configured.
hasHealthCheckAlways(endpoint) == TRUE

\* !this.healthCheckEndpoint is false.
hasHealthCheck(endpoint) == Truthy(endpoint)

\* Variant: only a healthy status is reused.
cacheIsFreshWhenHealthy(now, status) ==
    status.isHealthy /\ now - status.lastChecked < healthCacheTTL

\* now - this.healthStatus.lastChecked < this.healthCacheTTL, the test of
\* both branches that return the cached status.
cacheIsFresh(now, status) == now - status.lastChecked < healthCacheTTL

\* Variant: generate fetches the backend whatever checkHealth returned.
afterGateUngated(call) ==
    IF call.op = "generateStream" /\ ~call.isHealthy
    THEN [call EXCEPT !.elements = << StreamElement("error") >>]
    ELSE IF call.op = "generate" \/ call.isHealthy
    THEN [call EXCEPT !.requested = TRUE]
    ELSE call

\* A gated method from the return of checkHealth to its fetch of the
\* backend, or to its return when the backend is not healthy.  What
\* embedContent returns is not modelled.
afterGate(call) ==
    IF call.isHealthy THEN [call EXCEPT !.requested = TRUE]
    ELSE CASE call.op = "generate" -> [call EXCEPT !.result = Unhealthy]
           [] call.op = "generateStream" ->
                  [call EXCEPT !.elements = << StreamElement("error") >>]
           [] OTHER -> call

\* The call has returned to its caller, or its stream has ended.
returned(call) ==
    CASE call.op = "generate" -> call.result # NoResult
      [] call.op = "generateStream" ->
             call.elements # << >> /\ isTerminal(call.elements[Len(call.elements)])
      [] OTHER -> TRUE

\* A gated method up to its first await of a fetch: checkHealth up to its
\* fetch of the health endpoint, or, when checkHealth returns without one,
\* the method as far as its fetch of the backend.
Gated(c, op) ==
    /\ gate[c].pc \in {"idle", "done"}
    /\ returned(gate[c])
    /\ LET call == GatedCall(op, "running", clock, healthStatus, FALSE, FALSE,
                             FALSE, NoResponse, NoResult, << >>)
       IN
       IF ~hasHealthCheck(healthCheckEndpoint)
       THEN /\ gate' = [gate EXCEPT ![c] =
                          afterGate([call EXCEPT !.pc = "done", !.isHealthy = TRUE])]
            /\ probes' = probes
       ELSE IF cacheIsFresh(clock, healthStatus)
       THEN /\ gate' = [gate EXCEPT ![c] =
                          afterGate([call EXCEPT !.pc = "done",
                                                 !.isHealthy = healthStatus.isHealthy])]
            /\ probes' = probes
       ELSE /\ gate' = [gate EXCEPT ![c] = [call EXCEPT !.pc = "probing", !.probed = TRUE]]
            /\ probes' = Append(probes, clock)
    /\ UNCHANGED << clock, healthCheckEndpoint, healthStatus, customConfig, rendering,
                 jobStores, promised, jobLog >>
    /\ UNCHANGED orchestratorVars

\* checkHealth from the fetch it awaited to its return, and the method on
\* to its fetch of the backend.
ProbeSettles(c, outcome) ==
    /\ gate[c].pc = "probing"
    /\ healthStatus' = HealthStatus(outcome = "ok", gate[c].now)
    /\ gate' = [gate EXCEPT ![c] =
                  afterGate([gate[c] EXCEPT !.pc = "done", !.isHealthy = (outcome = "ok")])]
    /\ UNCHANGED << clock, healthCheckEndpoint, probes, customConfig, rendering,
                 jobStores, promised, jobLog >>
    /\ UNCHANGED orchestratorVars

\* generate from the fetch of the backend it awaited to its return.
ResponseSettles(c, response) ==
    /\ gate[c].op = "generate"
    /\ gate[c].requested
    /\ ~returned(gate[c])
    /\ gate' = [gate EXCEPT ![c].response = response,
                             ![c].result = resultOfResponse(customConfig, response)]
    /\ UNCHANGED << clock, healthCheckEndpoint, healthStatus, probes, customConfig, rendering,
                 jobStores, promised, jobLog >>
    /\ UNCHANGED orchestratorVars

\* Variant: the generator goes on to yield completed after it has yielded
\* an error.
afterStreamEventNoReturn(elements, event) ==
    CASE event = "chunk" -> Append(elements, StreamElement("streaming"))
      [] event = "done" -> Append(elements, StreamElement("completed"))
      [] OTHER -> elements \o << StreamElement("error"), StreamElement("completed") >>

\* What generateStream has yielded after the fetch or the read it awaited
\* settles: with a chunk (the response is ok and reader.read() gives a
\* value), with the end of the body, or with an error (the fetch rejects,
\* the response is not ok or has no body, or the read rejects).
afterStreamEvent(elements, event) ==
    CASE event = "chunk" -> Append(elements, StreamElement("streaming"))
      [] event = "done" -> Append(elements, StreamElement("completed"))
      [] OTHER -> Append(elements, StreamElement("error"))

StreamEvents == {"chunk", "done", "error"}

\* generateStream from the fetch or the read it awaited to its next yield.
StreamSettles(c, event) ==
    /\ gate[c].op = "generateStream"
    /\ gate[c].requested
    /\ ~returned(gate[c])
    /\ event = "chunk" => Len(gate[c].elements) < MaxChunks
    /\ gate' = [gate EXCEPT ![c].elements = afterStreamEvent(@, event)]
    /\ UNCHANGED << clock, healthCheckEndpoint, healthStatus, probes, customConfig, rendering,
                 jobStores, promised, jobLog >>
    /\ UNCHANGED orchestratorVars

Tick ==
    /\ clock < healthCacheTTL + MaxTicks * TickMs
    /\ clock' = clock + TickMs
    /\ UNCHANGED << healthCheckEndpoint, healthStatus, gate, probes, customConfig, rendering,
                 jobStores, promised, jobLog >>
    /\ UNCHANGED orchestratorVars

InitHealth ==
    /\ \E endpoint \in {"", "/health"} : CustomAdapterInit(endpoint)
    /\ customConfig = CustomConfig(Undefined, Undefined)
    /\ rendering = NoRendering
    /\ NoJobs
    /\ config \in Catalogs
    /\ adapters = initializeAdapters(config)
    /\ activeJobs = << >>
    /\ calls = [caller \in Callers |-> NoCall]
    /\ made = 0
    /\ finished = {}
    /\ retired = {}
    /\ registered = {}

\* The backend is down, or answers with a text.
PlainResponses == { Rejected, Ok(JObject([data |-> JString("Custom response")])) }

NextHealth ==
    \/ \E c \in Callers : \E op \in GatedOps : Gated(c, op)
    \/ \E c \in Callers : \E outcome \in ProbeOutcomes : ProbeSettles(c, outcome)
    \/ \E c \in Callers : \E response \in PlainResponses : ResponseSettles(c, response)
    \/ \E c \in Callers : \E event \in {"done", "error"} : StreamSettles(c, event)
    \/ Tick

SpecHealth == InitHealth /\ [][NextHealth]_vars

(***************************************************************************)
(* CustomAdapter.generateStream on its own.  The fetch of the health       *)
(* endpoint settles, and the response of the backend ends or errors: the   *)
(* fetch rejects or is answered, and the reads of an answered body come to *)
(* its end or to an error.                                                 *)
(***************************************************************************)
NextStream ==
    \/ \E c \in Callers : Gated(c, "generateStream")
    \/ \E c \in Callers : \E outcome \in ProbeOutcomes : ProbeSettles(c, outcome)
    \/ \E c \in Callers : \E event \in StreamEvents : StreamSettles(c, event)

SpecStream ==
    /\ InitHealth
    /\ [][NextStream]_vars
    /\ \A c \in Callers :
          /\ WF_vars(\E outcome \in ProbeOutcomes : ProbeSettles(c, outcome))
          /\ WF_vars(StreamSettles(c, "done") \/ StreamSettles(c, "error"))

(***************************************************************************)
(* CustomAdapter.generate on its own: no health-check path is configured,  *)
(* the provider and the model named by the calls have each a response      *)
(* extractor or none, and the backend answers with one of the bodies       *)
(* below.                                                                  *)
(***************************************************************************)
\* { "status": "completed", "data": "Custom response" }
TextBody == JObject([status |-> JString("completed"), data |-> JString("Custom response")])

\* { "choices": [ { "text": "nested" } ] }
NestedBody == JObject([choices |-> JArray(<< JObject([text |-> JString("nested")]) >>)])

\* { "choices": [] }
NoChoiceBody == JObject([choices |-> JArray(<< >>)])

\* { "choices": [ { "text": 42 } ] }
NumberBody == JObject([choices |-> JArray(<< JObject([text |-> JNumber(42)]) >>)])

\* { "choices": "" }
EmptyBody == JObject([choices |-> JString("")])

\* { "status": "pending", "jobId": "custom-123" }
PendingBody == JObject([status |-> JString("pending"), jobId |-> JString("custom-123")])

\* { "data": "partial", "error": "context truncated" }
WarningBody == JObject([data |-> JString("partial"), error |-> JString("context truncated")])

Bodies ==
    { TextBody, NestedBody, NoChoiceBody, NumberBody, EmptyBody, PendingBody, WarningBody }

Responses == { Rejected, NotOk, NotJson } \cup { Ok(body) : body \in Bodies }

\* The extraction paths a provider and a model are configured with.
ProviderExtractors == { Undefined, "data", "choices[0].text" }

ModelExtractors == { Undefined, "choices[0].text", "result.text" }

InitCustom ==
    /\ CustomAdapterInit("")
    /\ customConfig \in { CustomConfig(e, m) : e \in ProviderExtractors, m \in ModelExtractors }
    /\ rendering = NoRendering
    /\ NoJobs
    /\ config = TestCatalog
    /\ adapters = initializeAdapters(config)
    /\ activeJobs = << >>
    /\ calls = [caller \in Callers |-> NoCall]
    /\ made = 0
    /\ finished = {}
    /\ retired = {}
    /\ registered = {}

NextCustom ==
    \/ \E c \in Callers : Gated(c, "generate")
    \/ \E c \in Callers : \E response \in Responses : ResponseSettles(c, response)

SpecCustom == InitCustom /\ [][NextCustom]_vars

(***************************************************************************)
(* _buildRequestBody.  A text is the sequence of its characters.  The      *)
(* texts in use have no white space outside strings, no control character, *)
(* and of the escapes of JSON and the patterns of a replacement string     *)
(* only those spelled out below.                                           *)
(***************************************************************************)
Quote == "\""

Backslash == "\\"

\* The pattern occurs in the text at index i.
matchesAt(text, i, pattern) ==
    /\ i + Len(pattern) - 1 <= Len(text)
    /\ SubSeq(text, i, i + Len(pattern) - 1) = pattern

\* What a replacement string inserts for a match: $$ inserts $, $& inserts
\* the matched text, every other character inserts itself.
RECURSIVE expand(_, _, _)
expand(replacement, matched, i) ==
    IF i > Len(replacement) THEN << >>
    ELSE IF replacement[i] = "$" /\ i < Len(replacement) /\ replacement[i + 1] = "$"
    THEN << "$" >> \o expand(replacement, matched, i + 2)
    ELSE IF replacement[i] = "$" /\ i < Len(replacement) /\ replacement[i + 1] = "&"
    THEN matched \o expand(replacement, matched, i + 2)
    ELSE << replacement[i] >> \o expand(replacement, matched, i + 1)

\* text.replace(/pattern/g, replacement) from index i on, for a pattern
\* without special characters.
RECURSIVE replace(_, _, _, _)
replace(text, pattern, replacement, i) ==
    IF i > Len(text) THEN << >>
    ELSE IF matchesAt(text, i, pattern)
    THEN expand(replacement, pattern, 1)
            \o replace(text, pattern, replacement, i + Len(pattern))
    ELSE << text[i] >> \o replace(text, pattern, replacement, i + 1)

\* The characters of a string as JSON.stringify writes them.
RECURSIVE escaped(_, _)
escaped(text, i) ==
    IF i > Len(text) THEN << >>
    ELSE (IF text[i] \in {Quote, Backslash} THEN << Backslash, text[i] >>
          ELSE << text[i] >>) \o escaped(text, i + 1)

\* JSON.stringify of a string.
stringify(text) == << Quote >> \o escaped(text, 1) \o << Quote >>

\* JSON.parse: a value and the index after it, or a SyntaxError.
SyntaxError == [ok |-> FALSE, value |-> << >>, next |-> 0]

Parsed(value, next) == [ok |-> TRUE, value |-> value, next |-> next]

\* A JSON string from index i, after its opening quote.
RECURSIVE stringFrom(_, _, _)
stringFrom(text, i, acc) ==
    IF i > Len(text) THEN SyntaxError
    ELSE IF text[i] = Quote THEN Parsed(acc, i + 1)
    ELSE IF text[i] = Backslash
    THEN IF i < Len(text) /\ text[i + 1] \in {Quote, Backslash, "/"}
         THEN stringFrom(text, i + 2, Append(acc, text[i + 1]))
         ELSE SyntaxError
    ELSE stringFrom(text, i + 1, Append(acc, text[i]))

string(text, i) ==
    IF i <= Len(text) /\ text[i] = Quote THEN stringFrom(text, i + 1, << >>)
    ELSE SyntaxError

\* The members of a JSON object from index i to its closing brace, which
\* ends the text.  Every value of the texts in use is a string; a later
\* member overwrites an earlier one of the same name.
RECURSIVE members(_, _, _)
members(text, i, object) ==
    LET key == string(text, i) IN
    IF ~key.ok \/ key.next > Len(text) \/ text[key.next] # ":" THEN SyntaxError
    ELSE LET value == string(text, key.next + 1) IN
         IF ~value.ok \/ value.next > Len(text) THEN SyntaxError
         ELSE IF text[value.next] = ","
         THEN members(text, value.next + 1, Put(object, key.value, value.value))
         ELSE IF text[value.next] = "}" /\ value.next = Len(text)
         THEN Parsed(Put(object, key.value, value.value), value.next + 1)
         ELSE SyntaxError

parse(text) ==
    IF text = << "{", "}" >> THEN Parsed(<< >>, 3)
    ELSE IF Len(text) > 2 /\ text[1] = "{" THEN members(text, 2, << >>)
    ELSE SyntaxError

\* The names of the payload's fields and the placeholders of a template.
ModelKey == << "m", "o", "d", "e", "l" >>

PromptKey == << "p", "r", "o", "m", "p", "t" >>

TypeKey == << "t", "y", "p", "e" >>

Placeholder(name) == << "{", "{" >> \o name \o << "}", "}" >>

Quoted(text) == << Quote >> \o text \o << Quote >>

\* _buildRequestBody for a request { type: 'text', prompt } with neither a
\* system prompt nor parameters.
buildRequestBody(template, prompt, modelId) ==
    IF template = << >>
    THEN Parsed((ModelKey :> modelId) @@ (TypeKey :> << "t", "e", "x", "t" >>) @@ (PromptKey :> prompt), 0)
    ELSE
    LET withModel == replace(template, Placeholder(ModelKey), modelId, 1)
        withPrompt ==
            replace(replace(withModel, Quoted(Placeholder(PromptKey)), stringify(prompt), 1),
                    Placeholder(PromptKey), prompt, 1)
        withSystemPrompt ==
            replace(replace(withPrompt, Quoted(Placeholder(<< "s", "y", "s", "t", "e", "m", "P", "r", "o", "m", "p", "t" >>)),
                            stringify(<< >>), 1),
                    Placeholder(<< "s", "y", "s", "t", "e", "m", "P", "r", "o", "m", "p", "t" >>), << >>, 1)
        withParams ==
            replace(replace(replace(withSystemPrompt,
                                    Placeholder(<< "t", "e", "m", "p", "e", "r", "a", "t", "u", "r", "e" >>), << "1" >>, 1),
                            Placeholder(<< "m", "a", "x", "T", "o", "k", "e", "n", "s" >>), << "5", "1", "2" >>, 1),
                    Placeholder(<< "t", "o", "p", "P" >>), << "1" >>, 1)
    IN  parse(withParams)

\* {"model":"{{model}}","prompt":"{{prompt}}"}
QuotedTemplate ==
    << "{", Quote, "m", "o", "d", "e", "l", Quote, ":", Quote, "{", "{",
       "m", "o", "d", "e", "l", "}", "}", Quote, ",", Quote, "p", "r", "o",
       "m", "p", "t", Quote, ":", Quote, "{", "{", "p", "r", "o", "m", "p",
       "t", "}", "}", Quote, "}" >>

Templates == { << >>, QuotedTemplate }

\* The longest prompt or model id drawn from the characters below.
MaxText == 2

TextChars == { "a", "$", "&", Quote, Backslash }

RECURSIVE textsOf(_)
textsOf(n) ==
    IF n = 0 THEN { << >> }
    ELSE textsOf(n - 1) \cup { Append(text, c) : text \in textsOf(n - 1), c \in TextChars }

\* 'A test prompt', '{{prompt}}' and '{{temperature}}', and the short texts.
Prompts ==
    { << "A", " ", "t", "e", "s", "t", " ", "p", "r", "o", "m", "p", "t" >>,
      Placeholder(PromptKey),
      Placeholder(<< "t", "e", "m", "p", "e", "r", "a", "t", "u", "r", "e" >>) } \cup textsOf(MaxText)

\* 'custom-model-1', and the short texts that are not empty.
ModelIds == { << "c", "u", "s", "t", "o", "m", "-", "m", "o", "d", "e", "l", "-", "1" >> } \cup (textsOf(MaxText - 1) \ { << >> })

\* The call returns or raises.
BuildRequestBody ==
    /\ rendering.pc = "called"
    /\ LET parsed == buildRequestBody(rendering.template, rendering.prompt,
                                      rendering.modelId)
       IN  rendering' = [rendering EXCEPT !.pc = "returned", !.threw = ~parsed.ok,
                                          !.body = parsed.value]
    /\ UNCHANGED << clock, healthCheckEndpoint, healthStatus, gate, probes, customConfig,
                 jobStores, promised, jobLog >>
    /\ UNCHANGED orchestratorVars

InitTemplate ==
    /\ CustomAdapterInit("")
    /\ customConfig = CustomConfig(Undefined, Undefined)
    /\ rendering \in { Rendering(template, prompt, modelId, "called", FALSE, << >>) :
                          template \in Templates, prompt \in Prompts, modelId \in ModelIds }
    /\ NoJobs
    /\ config = TestCatalog
    /\ adapters = initializeAdapters(config)
    /\ activeJobs = << >>
    /\ calls = [caller \in Callers |-> NoCall]
    /\ made = 0
    /\ finished = {}
    /\ retired = {}
    /\ registered = {}

NextTemplate == BuildRequestBody

SpecTemplate == InitTemplate /\ [][NextTemplate]_vars

(***************************************************************************)
(* The orchestrator over the simulated job stores of the OpenAI and Google *)
(* adapters.  The body of an async method runs, as far as its first await, *)
(* when the method is called: generate of a video and checkJobStatus have  *)
(* no await, so they read and write the store within the step of the       *)
(* orchestrator that calls them, and the orchestrator resumes with what    *)
(* they returned in a later step.                                          *)
(***************************************************************************)
\* The calls made in all.
MaxStoreCalls == 5

\* `openai-sora-${Date.now()}` and `google-vid-${Date.now()}`
providerJobIdAt(adapterName, now) ==
    (IF adapterName = "openai" THEN "openai-sora-" ELSE "google-vid-") \o ToString(now)

\* The attempts at which checkJobStatus reports completed: job.attempts < 3
\* is pending for OpenAI, job.attempts < 2 for Google.
attemptsToComplete(adapterName) == IF adapterName = "openai" THEN 3 ELSE 2

\* What generate of a video returns.
videoJob(adapterName, modelId, id) ==
    Result("pending", adapterName, modelId, Undefined, Undefined, id)

\* What checkJobStatus returns for the store as it finds it.
statusOfJob(adapterName, store, id) ==
    IF id \notin DOMAIN store
    THEN Result("failed", Undefined, Undefined, Undefined,
                IF adapterName = "openai" THEN "Job not found on OpenAI provider."
                ELSE "Job not found on Google provider.", Undefined)
    ELSE IF store[id] + 1 < attemptsToComplete(adapterName)
    THEN Result("pending", Undefined, Undefined, Undefined, Undefined, Undefined)
    ELSE Result("completed", Undefined, Undefined,
                IF adapterName = "openai" THEN "http://path.to/simulated_sora_video.mp4"
                ELSE "http://path.to/simulated_video.mp4", Undefined, Undefined)

\* The store as checkJobStatus leaves it.
storeAfterStatus(adapterName, store, id) ==
    IF id \notin DOMAIN store THEN store
    ELSE IF store[id] + 1 < attemptsToComplete(adapterName)
    THEN [store EXCEPT ![id] = @ + 1]
    ELSE Delete(store, id)

\* A job as the history holds it.
Job(adapterName, id, answers) == [adapter |-> adapterName, id |-> id, answers |-> answers]

\* The history after a status check of the id answered with the status.
answeredJobs(log, adapterName, id, status) ==
    [k \in 1..Len(log) |->
        IF log[k].adapter = adapterName /\ log[k].id = id
        THEN [log[k] EXCEPT !.answers = Append(@, status)]
        ELSE log[k]]

\* Video models of the two providers; google's costs less, openai's is the
\* faster.
VideoCatalog ==
    << Provider("openai", Undefined,
            << Model("sora", "video", 100, "high", 100) >>),
       Provider("google", Undefined,
            << Model("veo", "video", 50, "high", 200) >>) >>

VideoRequests == { Request("video", "cost", Undefined), Request("video", "latency", Undefined) }

\* generate for a video up to its await of adapter.generate, which has
\* stored the job.
StoreGenerate(c, request) ==
    /\ free(c)
    /\ made < MaxStoreCalls
    /\ made' = made + 1
    /\ LET candidates == getSortedProviders(config, request)
           call == Call("generate", "running", request, Undefined, candidates, 0,
                        << >>, << >>, NoResult, FALSE, FALSE)
           next == IF noCandidates(candidates)
                   THEN [call EXCEPT !.pc = "done", !.result = NoSuitableProvider]
                   ELSE attempt(call, 1)
       IN  /\ calls' = continue(c, next)
           /\ IF next.pc = "awaitGenerate"
              THEN LET name == adapters[next.candidates[next.i].provider.name].name
                       id == providerJobIdAt(name, clock)
                   IN  /\ jobStores' = [jobStores EXCEPT ![name] = Put(@, id, 0)]
                       /\ promised' = [promised EXCEPT ![c] =
                              Returned(videoJob(name, next.candidates[next.i].model.id, id))]
                       /\ jobLog' = Append(jobLog, Job(name, id, << >>))
              ELSE UNCHANGED << jobStores, promised, jobLog >>
    /\ config' = providersAfterSelection(config, request)
    /\ UNCHANGED << adapters, activeJobs, finished, retired, registered >>
    /\ UNCHANGED << clock, healthCheckEndpoint, healthStatus, gate, probes, customConfig,
                    rendering >>

\* generate from the await of adapter.generate to its return.  Both
\* adapters answer a video request with a job, so the loop does not go on.
StoreGenerateSettles(c) ==
    LET call == calls[c]
        outcome == promised[c]
        provider == call.candidates[call.i].provider
        seen == [call EXCEPT !.outcomes = Append(@, outcome)]
        todo == afterAttempt(outcome)
        id == createOrchestratorJobId(provider.name, outcome.result.orchestratorJobId)
    IN  /\ call.pc = "awaitGenerate"
        /\ todo = "register"
        /\ calls' = continue(c, [seen EXCEPT !.pc = "done",
                                   !.result = [outcome.result EXCEPT !.orchestratorJobId = id]])
        /\ activeJobs' = Put(activeJobs, id, registeredJob(provider.name, outcome.result))
        /\ retired' = retired \ {id}
        /\ registered' = registered \cup {Registration(id, provider.name, outcome.result)}
        /\ UNCHANGED << config, adapters, made, finished >>
        /\ UNCHANGED healthVars

\* getJobResult up to its await of adapter.checkJobStatus, which has
\* counted the attempt.
StoreGetJobResult(c, orchestratorJobId) ==
    /\ free(c)
    /\ made < MaxStoreCalls
    /\ made' = made + 1
    /\ orchestratorJobId \in PollableIds
    /\ LET call == Call("getJobResult", "running", NoRequest, orchestratorJobId,
                        << >>, 0, << >>, << >>, NoResult,
                        orchestratorJobId \in finished, orchestratorJobId \in retired)
       IN  IF orchestratorJobId \notin DOMAIN activeJobs
           THEN /\ calls' = continue(c, [call EXCEPT !.pc = "done", !.result = JobNotFound])
                /\ UNCHANGED << jobStores, promised, jobLog >>
           ELSE LET job == activeJobs[orchestratorJobId] IN
                IF \/ job.providerName \notin DOMAIN adapters
                   \/ ~adapters[job.providerName].checkJobStatus
                THEN /\ calls' = continue(c, [call EXCEPT !.pc = "done",
                                      !.result = NoStatusChecks(job.providerName)])
                     /\ UNCHANGED << jobStores, promised, jobLog >>
                ELSE LET name == adapters[job.providerName].name
                         result == statusOfJob(name, jobStores[name], job.providerJobId)
                     IN  /\ calls' = continue(c, [call EXCEPT !.pc = "awaitStatus",
                                          !.invoked = << Invocation("checkJobStatus",
                                                job.providerName, job.providerJobId, 0) >>])
                         /\ jobStores' = [jobStores EXCEPT ![name] =
                                storeAfterStatus(name, @, job.providerJobId)]
                         /\ promised' = [promised EXCEPT ![c] = Returned(result)]
                         /\ jobLog' = answeredJobs(jobLog, name, job.providerJobId,
                                                   result.status)
    /\ UNCHANGED << config, adapters, activeJobs, finished, retired, registered >>
    /\ UNCHANGED << clock, healthCheckEndpoint, healthStatus, gate, probes, customConfig,
                    rendering >>

\* getJobResult from the await of adapter.checkJobStatus to its return.
StoreGetJobResultSettles(c) ==
    LET call == calls[c]
        outcome == promised[c]
        seen == [call EXCEPT !.outcomes = Append(@, outcome)]
        over == jobIsFinished(outcome.result)
    IN  /\ call.pc = "awaitStatus"
        /\ calls' = continue(c, [seen EXCEPT !.pc = "done", !.result = outcome.result])
        /\ activeJobs' = IF over THEN Delete(activeJobs, call.jobId) ELSE activeJobs
        /\ finished' = IF over THEN finished \cup {call.jobId} ELSE finished
        /\ retired' = IF over THEN retired \cup {call.jobId} ELSE retired
        /\ UNCHANGED << config, adapters, made, registered >>
        /\ UNCHANGED healthVars

\* The clock reads a later millisecond, once.
StoreTick == clock = healthCacheTTL /\ Tick

InitStores ==
    /\ CustomAdapterInit("")
    /\ customConfig = CustomConfig(Undefined, Undefined)
    /\ rendering = NoRendering
    /\ NoJobs
    /\ config = VideoCatalog
    /\ adapters = initializeAdapters(config)
    /\ activeJobs = << >>
    /\ calls = [caller \in Callers |-> NoCall]
    /\ made = 0
    /\ finished = {}
    /\ retired = {}
    /\ registered = {}

NextStores ==
    \/ \E c \in Callers : \E request \in VideoRequests : StoreGenerate(c, request)
    \/ \E c \in Callers : StoreGenerateSettles(c)
    \/ \E c \in Callers : \E id \in PollableIds : StoreGetJobResult(c, id)
    \/ \E c \in Callers : StoreGetJobResultSettles(c)
    \/ StoreTick

SpecStores == InitStores /\ [][NextStores]_vars

(***************************************************************************)
(* getJobResult over CustomAdapter.checkJobStatus, which asks the backend  *)
(* with GET <baseUrl>/job/<id>.                                            *)
(***************************************************************************)
\* Bodies the backend answers the status request with.
JobBodies ==
    { JObject([status |-> JString("pending")]),
      JObject([status |-> JString("completed"), data |-> JString("content")]),
      JObject([status |-> JString("failed"), error |-> JString("job error")]),
      JObject([status |-> JString("done"), data |-> JString("content")]),
      JObject([data |-> JString("content")]) }

JobResponses == { Rejected, NotOk, NotJson } \cup { Ok(body) : body \in JobBodies }

\* Lines 301-315: the result of checkJobStatus for what the fetch settled
\* with.
checkJobStatus(response) ==
    LET failed(message) ==
            Result("failed", Undefined, Undefined, Undefined, message, Undefined)
    IN  CASE response.kind = "rejected" -> failed("fetch failed")
          [] response.kind = "notOk" -> failed("Custom server job status error: 500")
          [] response.kind = "notJson" -> failed("Unexpected token < in JSON at position 0")
          [] OTHER ->
                 Result(plain(JGet(response.body, "status")), Undefined, Undefined,
                        plain(JGet(response.body, "data")),
                        plain(JGet(response.body, "error")), Undefined)

\* getJobResult from the await of the custom adapter's checkJobStatus to
\* its return.
CustomGetJobResultSettles(c, response) ==
    LET call == calls[c]
        result == checkJobStatus(response)
        seen == [call EXCEPT !.outcomes = Append(@, Returned(result))]
        over == jobIsFinished(result)
    IN  /\ call.pc = "awaitStatus"
        /\ adapters[call.invoked[1].adapter].name = CustomName
        /\ calls' = continue(c, [seen EXCEPT !.pc = "done", !.result = result])
        /\ activeJobs' = IF over THEN Delete(activeJobs, call.jobId) ELSE activeJobs
        /\ finished' = IF over THEN finished \cup {call.jobId} ELSE finished
        /\ retired' = IF over THEN retired \cup {call.jobId} ELSE retired
        /\ UNCHANGED << config, adapters, made, registered >>
        /\ UNCHANGED healthVars

\* The custom provider alone.
BackendCatalog == SelectSeq(TestCatalog, LAMBDA provider : provider.name = CustomName)

InitBackend ==
    /\ CustomAdapterInit("")
    /\ customConfig = CustomConfig(Undefined, Undefined)
    /\ rendering = NoRendering
    /\ NoJobs
    /\ config = BackendCatalog
    /\ adapters = initializeAdapters(config)
    /\ activeJobs = << >>
    /\ calls = [caller \in Callers |-> NoCall]
    /\ made = 0
    /\ finished = {}
    /\ retired = {}
    /\ registered = {}

NextBackend ==
    \/ \E c \in Callers : \E request \in Requests : Generate(c, request)
    \/ \E c \in Callers :
          \E outcome \in GenerateOutcomes(awaited(c).name, awaited(c).model) :
             GenerateSettles(c, outcome)
    \/ \E c \in Callers : \E id \in PollableIds : GetJobResult(c, id)
    \/ \E c \in Callers : \E response \in JobResponses : CustomGetJobResultSettles(c, response)

SpecBackend == InitBackend /\ [][NextBackend]_vars

(***************************************************************************)
(* The orchestrator of a catalog with a provider named in capitals and     *)
(* with two providers named custom.                                        *)
(***************************************************************************)
NamesakeCatalog ==
    << Provider("OpenAI", Undefined,
            << Model("gpt-4o", "text", 100, "high", 500) >>),
       Provider("custom", "http://localhost:8080",
            << Model("local-llama", "text", 0, "low", 800) >>),
       Provider("custom", "http://localhost:9090",
            << Model("local-mistral", "text", 5, "low", 600) >>) >>

InitNamesakes ==
    /\ CustomAdapterInit("")
    /\ customConfig = CustomConfig(Undefined, Undefined)
    /\ rendering = NoRendering
    /\ NoJobs
    /\ config = NamesakeCatalog
    /\ adapters = initializeAdapters(config)
    /\ activeJobs = << >>
    /\ calls = [caller \in Callers |-> NoCall]
    /\ made = 0
    /\ finished = {}
    /\ retired = {}
    /\ registered = {}

NextNamesakes ==
    \/ \E c \in Callers : \E request \in Requests : Generate(c, request)
    \/ \E c \in Callers :
          \E outcome \in GenerateOutcomes(awaited(c).name, awaited(c).model) :
             GenerateSettles(c, outcome)

SpecNamesakes == InitNamesakes /\ [][NextNamesakes]_vars

(***************************************************************************)
(* Jobs under repeated polling.  The calls of getJobResult are not counted *)
(* among the calls made, so that a job can be polled for ever; one of the  *)
(* two adapters has a checkJobStatus method and the other has none.  A     *)
(* promise that is awaited settles, every registered job is polled again   *)
(* and again, and of the status checks of a job that are awaited again and *)
(* again one answers at last that the job is over at its provider.         *)
(***************************************************************************)
\* The calls of generate made in all.
MaxJobs == 2

\* getJobResult up to its await of adapter.checkJobStatus.
Poll(c, orchestratorJobId) ==
    /\ free(c)
    /\ orchestratorJobId \in PollableIds
    /\ LET call == Call("getJobResult", "running", NoRequest, orchestratorJobId,
                        << >>, 0, << >>, << >>, NoResult,
                        orchestratorJobId \in finished, orchestratorJobId \in retired)
       IN  calls' = continue(c,
                IF orchestratorJobId \notin DOMAIN activeJobs
                THEN [call EXCEPT !.pc = "done", !.result = JobNotFound]
                ELSE LET job == activeJobs[orchestratorJobId] IN
                     IF \/ job.providerName \notin DOMAIN adapters
                        \/ ~adapters[job.providerName].checkJobStatus
                     THEN [call EXCEPT !.pc = "done",
                                       !.result = NoStatusChecks(job.providerName)]
                     ELSE [call EXCEPT !.pc = "awaitStatus",
                                       !.invoked = << Invocation("checkJobStatus",
                                                        job.providerName,
                                                        job.providerJobId, 0) >>])
    /\ UNCHANGED << config, adapters, activeJobs, made, finished, retired, registered >>
    /\ UNCHANGED healthVars

\* The keys the jobs of the video catalog are registered under.
PollingIds ==
    { createOrchestratorJobId(VideoCatalog[k].name, j) :
        k \in 1..Len(VideoCatalog), j \in ProviderJobIds }

\* The answers of a status check that say the job is over.
FinishedOutcomes ==
    { outcome \in StatusOutcomes :
        ~outcome.raised /\ outcome.result.status \in {"completed", "failed"} }

InitPolling ==
    /\ CustomAdapterInit("")
    /\ customConfig = CustomConfig(Undefined, Undefined)
    /\ rendering = NoRendering
    /\ NoJobs
    /\ config = VideoCatalog
    /\ \E capable \in DOMAIN initializeAdapters(config) :
          adapters = withStatusChecks(initializeAdapters(config), {capable})
    /\ activeJobs = << >>
    /\ calls = [caller \in Callers |-> NoCall]
    /\ made = 0
    /\ finished = {}
    /\ retired = {}
    /\ registered = {}

NextPolling ==
    \/ \E c \in Callers : made < MaxJobs /\ Generate(c, Request("video", "cost", Undefined))
    \/ \E c \in Callers :
          \E outcome \in GenerateOutcomes(awaited(c).name, awaited(c).model) :
             GenerateSettles(c, outcome)
    \/ \E c \in Callers : \E id \in PollableIds : Poll(c, id)
    \/ \E c \in Callers : \E outcome \in StatusOutcomes : GetJobResultSettles(c, outcome)

SpecPolling ==
    /\ InitPolling
    /\ [][NextPolling]_vars
    /\ \A c \in Callers :
          WF_vars(\E outcome \in GenerateOutcomes(awaited(c).name, awaited(c).model) :
                     GenerateSettles(c, outcome))
    /\ \A id \in PollingIds :
          /\ SF_vars(\E c \in Callers : Poll(c, id))
          /\ SF_vars(\E c \in Callers : \E outcome \in FinishedOutcomes :
                        calls[c].jobId = id /\ GetJobResultSettles(c, outcome))

(***************************************************************************)
(* Properties of generate                                                  *)
(***************************************************************************)
Last(seq) == seq[Len(seq)]

isGenerate(call) == call.kind = "generate"

isPoll(call) == call.kind = "getJobResult"

returnedFailed(outcome) == ~outcome.raised /\ outcome.result.status = "failed"

returnedCompleted(outcome) == ~outcome.raised /\ outcome.result.status = "completed"

returnedJob(outcome) ==
    /\ ~outcome.raised
    /\ outcome.result.status = "pending"
    /\ Truthy(outcome.result.orchestratorJobId)

\* The candidates of a call whose provider name has an adapter, in order.
dispatchable(call) ==
    LET hasAdapter(candidate) == candidate.provider.name \in DOMAIN adapters
    IN  SelectSeq(call.candidates, hasAdapter)

\* C1: when every candidate tried before the k-th attempt returned failed or
\* raised and the k-th attempt returns completed, generate returns just what
\* that adapter returned: its provider, model and data, and no error.
C1_FallbackReturnsCompleted ==
    \A c \in Callers :
        LET call == calls[c] IN
        isGenerate(call) =>
            \A k \in 1..Len(call.outcomes) :
                ( /\ returnedCompleted(call.outcomes[k])
                  /\ \A j \in 1..(k - 1) :
                        call.outcomes[j].raised \/ returnedFailed(call.outcomes[j]) )
                => /\ call.pc = "done"
                   /\ k = Len(call.invoked)
                   /\ call.result = call.outcomes[k].result
                   /\ call.result.status = "completed"
                   /\ call.result.provider
                         = call.candidates[call.invoked[k].candidate].provider.name
                   /\ call.result.model
                         = call.candidates[call.invoked[k].candidate].model.id
                   /\ call.result.data = "content"
                   /\ call.result.error = Undefined

\* The first two candidates failed and the third completed.
C1_Witness ==
    \E c \in Callers :
        /\ isGenerate(calls[c]) /\ calls[c].pc = "done"
        /\ Len(calls[c].outcomes) = 3
        /\ returnedFailed(calls[c].outcomes[1])
        /\ returnedFailed(calls[c].outcomes[2])
        /\ calls[c].result.status = "completed"
        /\ calls[c].result.provider = "openai"

\* C2: when every adapter invoked by a generate call returned failed, the
\* call returns the aggregate 'All configured providers failed.' failure and
\* has invoked the adapter of each candidate that has one exactly once, in
\* the order of the candidate list.
C2_ExhaustionInvokesEachOnce ==
    \A c \in Callers :
        LET call == calls[c]
            tried == dispatchable(call)
        IN  ( /\ isGenerate(call) /\ settled(call)
              /\ Len(call.candidates) > 0
              /\ \A k \in 1..Len(call.outcomes) : returnedFailed(call.outcomes[k]) )
            => /\ call.pc = "done"
               /\ call.result.status = "failed"
               /\ call.result.error = "All configured providers failed."
               /\ call.result.data = Undefined
               /\ Len(call.invoked) = Len(tried)
               /\ \A k \in 1..Len(tried) :
                     /\ call.invoked[k].op = "generate"
                     /\ call.invoked[k].adapter = tried[k].provider.name
                     /\ call.invoked[k].arg = tried[k].model.id
                     /\ call.candidates[call.invoked[k].candidate] = tried[k]

\* All three candidates have an adapter and each returned failed.
C2_Witness ==
    \E c \in Callers :
        /\ isGenerate(calls[c]) /\ calls[c].pc = "done"
        /\ Len(calls[c].candidates) = 3
        /\ Len(calls[c].outcomes) = 3
        /\ \A k \in 1..3 : returnedFailed(calls[c].outcomes[k])
        /\ calls[c].result.error = "All configured providers failed."

\* C3: an attempt that returned completed, or pending with a provider job
\* id, is the last adapter invocation of its generate call.
C3_NoAttemptAfterSuccess ==
    \A c \in Callers :
        LET call == calls[c] IN
        isGenerate(call) =>
            \A k \in 1..Len(call.outcomes) :
                (returnedCompleted(call.outcomes[k]) \/ returnedJob(call.outcomes[k]))
                => /\ k = Len(call.invoked)
                   /\ call.pc = "done"

\* The first of three candidates returned a job, and the call is over.
C3_Witness ==
    \E c \in Callers :
        /\ isGenerate(calls[c]) /\ settled(calls[c])
        /\ Len(dispatchable(calls[c])) = 3
        /\ Len(calls[c].outcomes) = 1
        /\ returnedJob(calls[c].outcomes[1])

\* C4: a generate call with an empty candidate list returns the failure 'No
\* suitable provider found.' and invokes no adapter.
C4_NoCandidateFailsAtOnce ==
    \A c \in Callers :
        LET call == calls[c] IN
        (isGenerate(call) /\ call.candidates = << >>)
        => /\ call.pc = "done"
           /\ call.result.status = "failed"
           /\ call.result.error = "No suitable provider found."
           /\ call.invoked = << >>
           /\ call.outcomes = << >>

\* An audio request: the catalog has no audio model.
C4_Witness ==
    \E c \in Callers :
        /\ isGenerate(calls[c]) /\ calls[c].pc = "done"
        /\ calls[c].request.type = "audio"
        /\ calls[c].candidates = << >>

\* C5: an attempt that raises is followed just as one that returns failed:
\* the call does not raise, the next candidate that has an adapter is
\* invoked, and when there is none the call returns the aggregate failure.
C5_RaiseIsHandledAsFailure ==
    \A c \in Callers :
        LET call == calls[c] IN
        isGenerate(call) =>
            \A k \in 1..Len(call.outcomes) :
                (call.outcomes[k].raised \/ returnedFailed(call.outcomes[k]))
                => LET later == { m \in (call.invoked[k].candidate + 1)..Len(call.candidates) :
                                    call.candidates[m].provider.name \in DOMAIN adapters }
                   IN  /\ call.pc # "raised"
                       /\ later # {} =>
                             /\ Len(call.invoked) > k
                             /\ call.invoked[k + 1].candidate \in later
                             /\ \A m \in later : call.invoked[k + 1].candidate <= m
                       /\ later = {} =>
                             /\ call.pc = "done"
                             /\ call.result.status = "failed"
                             /\ call.result.error = "All configured providers failed."

\* The first adapter raised and the second candidate was tried.
C5_Witness ==
    \E c \in Callers :
        /\ isGenerate(calls[c])
        /\ Len(calls[c].outcomes) >= 1
        /\ calls[c].outcomes[1].raised
        /\ Len(calls[c].invoked) >= 2
        /\ calls[c].invoked[2].candidate = 2

\* C6: neither generate nor getJobResult ever raises to its caller.
C6_EntryPointsNeverRaise ==
    \A c \in Callers : calls[c].pc # "raised"

(***************************************************************************)
(* Properties of the job registry                                          *)
(***************************************************************************)
\* Caller c takes the step in which its awaited adapter promise settles.
settles(c) ==
    /\ calls[c].pc \in {"awaitGenerate", "awaitStatus"}
    /\ Len(calls'[c].outcomes) = Len(calls[c].outcomes) + 1

\* Caller c takes the step in which it makes a call.
makes(c) ==
    /\ made' = made + 1
    /\ free(c)
    /\ calls'[c].kind # "none"

\* C7: when the adapter of provider p returns pending with provider job id
\* j, the step changes the registry in exactly one entry: the key
\* sha256(p-j) now holds (p, j); and generate returns the adapter's pending
\* result with that key, not j, as its job id.
C7_PendingRegistersOneJob ==
    [][ \A c \in Callers :
          (settles(c) /\ isGenerate(calls[c]) /\ returnedJob(Last(calls'[c].outcomes)))
          => LET p == calls[c].candidates[calls[c].i].provider.name
                 answer == Last(calls'[c].outcomes).result
                 j == answer.orchestratorJobId
                 id == "sha256(" \o p \o "-" \o j \o ")"
             IN  /\ DOMAIN activeJobs' = DOMAIN activeJobs \cup {id}
                 /\ activeJobs'[id] = [providerName |-> p, providerJobId |-> j]
                 /\ \A other \in DOMAIN activeJobs \ {id} :
                       activeJobs'[other] = activeJobs[other]
                 /\ calls'[c].pc = "done"
                 /\ calls'[c].result.status = "pending"
                 /\ calls'[c].result.orchestratorJobId = id
                 /\ id # j
                 /\ calls'[c].result.provider = answer.provider
                 /\ calls'[c].result.model = answer.model ]_vars

\* A generate call has just returned a job of google while the registry
\* holds another job besides.
C7_Witness ==
    \E c \in Callers :
        /\ isGenerate(calls[c]) /\ calls[c].pc = "done"
        /\ calls[c].result.status = "pending"
        /\ calls[c].result.orchestratorJobId = "sha256(google-job-2)"
        /\ calls[c].result.orchestratorJobId \in DOMAIN activeJobs
        /\ Cardinality(DOMAIN activeJobs) = 2

\* The error of getJobResult for an id the registry does not hold.
isJobNotFound(result) ==
    /\ result.status = "failed"
    /\ result.error = "Job not found or already completed."
    /\ result.data = Undefined

C9_PendingPollKeepsRegistry ==
    [][ \A c \in Callers :
          /\ ( /\ settles(c) /\ isPoll(calls[c])
               /\ ~Last(calls'[c].outcomes).raised
               /\ Last(calls'[c].outcomes).result.status = "pending" )
             => /\ activeJobs' = activeJobs
                /\ calls'[c].pc = "done"
                /\ calls'[c].result.status = "pending"
          /\ (makes(c) /\ isPoll(calls'[c])) => activeJobs' = activeJobs ]_vars

\* A poll has answered pending for a job that an earlier poll answered
\* pending for, and the job is still registered.
C9_Witness ==
    \E c \in Callers :
        /\ isPoll(calls[c]) /\ calls[c].pc = "done"
        /\ calls[c].result.status = "pending"
        /\ calls[c].jobId \in DOMAIN activeJobs
        /\ made >= 3

\* C10: getJobResult with an id the registry does not hold returns the
\* failure 'Job not found or already completed.' in the step of the call,
\* invokes no adapter operation and leaves the registry unchanged.
C10_UnknownJobIsNotFound ==
    [][ \A c \in Callers :
          (makes(c) /\ isPoll(calls'[c]) /\ calls'[c].jobId \notin DOMAIN activeJobs)
          => /\ calls'[c].pc = "done"
             /\ isJobNotFound(calls'[c].result)
             /\ calls'[c].invoked = << >>
             /\ calls'[c].outcomes = << >>
             /\ activeJobs' = activeJobs ]_vars

\* A poll of an id that generate never handed out, made while a job is
\* registered.
C10_Witness ==
    \E c \in Callers :
        /\ isPoll(calls[c]) /\ calls[c].pc = "done"
        /\ calls[c].jobId = UnknownJobId
        /\ ~calls[c].late
        /\ activeJobs # << >>

\* C11: getJobResult with a registered id whose provider's adapter has no
\* checkJobStatus returns, in the step of the call, a failed result whose
\* error says that this provider does not support job status checks, and
\* invokes no adapter operation.
C11_MissingStatusCheckIsReported ==
    [][ \A c \in Callers :
          ( /\ makes(c) /\ isPoll(calls'[c])
            /\ calls'[c].jobId \in DOMAIN activeJobs
            /\ ~adapters[activeJobs[calls'[c].jobId].providerName].checkJobStatus )
          => LET p == activeJobs[calls'[c].jobId].providerName IN
             /\ calls'[c].pc = "done"
             /\ calls'[c].result.status = "failed"
             /\ calls'[c].result.error
                   = "Provider '" \o p \o "' does not support job status checks."
             /\ calls'[c].result.data = Undefined
             /\ calls'[c].invoked = << >>
             /\ calls'[c].outcomes = << >> ]_vars

\* A poll of a registered job of google, whose adapter has no
\* checkJobStatus, has returned.
C11_Witness ==
    \E c \in Callers :
        /\ isPoll(calls[c]) /\ calls[c].pc = "done"
        /\ calls[c].jobId \in DOMAIN activeJobs
        /\ activeJobs[calls[c].jobId].providerName = "google"
        /\ ~adapters["google"].checkJobStatus
        /\ calls[c].result.status = "failed"

\* The registrations made for the pair of provider p and provider job j.
registrationsOf(p, j) ==
    { r \in registered : r.providerName = p /\ r.providerJobId = j }

\* C12: the id of a job is a function of its provider name and provider job
\* id: every registration of one pair, whenever it was made, was made under
\* the same id, which is the one generate returns; and the registry holds at
\* most one entry for the pair, under that id.
C12_JobIdIsDeterministic ==
    /\ \A r1, r2 \in registered :
          (r1.providerName = r2.providerName /\ r1.providerJobId = r2.providerJobId)
          => r1.id = r2.id
    /\ \A id1, id2 \in DOMAIN activeJobs :
          activeJobs[id1] = activeJobs[id2] => id1 = id2
    /\ \A id \in DOMAIN activeJobs :
          \E r \in registrationsOf(activeJobs[id].providerName,
                                   activeJobs[id].providerJobId) : r.id = id
    /\ \A c \in Callers :
          LET call == calls[c] IN
          ( /\ isGenerate(call) /\ call.pc = "done"
            /\ call.outcomes # << >> /\ returnedJob(Last(call.outcomes)) )
          => \E r \in registrationsOf(call.candidates[call.i].provider.name,
                                      Last(call.outcomes).result.orchestratorJobId) :
                /\ r.id = call.result.orchestratorJobId
                /\ r.id \in DOMAIN activeJobs

\* A generate call has registered a pair that was registered before, was
\* polled to its end and retired: the id is the one of before, and the
\* registry holds the one entry.
C12_Witness ==
    \E c \in Callers :
        /\ isGenerate(calls[c]) /\ calls[c].pc = "done"
        /\ calls[c].result.status = "pending"
        /\ calls[c].result.orchestratorJobId \in finished
        /\ calls[c].result.orchestratorJobId \in DOMAIN activeJobs
        /\ Cardinality(DOMAIN activeJobs) = 1
        /\ Cardinality(registered) = 1

\* C13: one id never addresses two jobs: all registrations ever made under
\* one id are of the same provider name and provider job id, so the entry
\* the registry holds under an id, retired before or not, is the job of
\* every registration of that id.
C13_IdAddressesOneJob ==
    /\ \A r1, r2 \in registered :
          r1.id = r2.id
          => (r1.providerName = r2.providerName /\ r1.providerJobId = r2.providerJobId)
    /\ \A id \in DOMAIN activeJobs :
          \A r \in registered :
             r.id = id => activeJobs[id] = [providerName |-> r.providerName,
                                            providerJobId |-> r.providerJobId]

\* The id of job-1 of openai is retired, and the registry now holds job-1
\* of google, under another id.
C13_Witness ==
    /\ "sha256(openai-job-1)" \in retired
    /\ \E id \in DOMAIN activeJobs :
          /\ activeJobs[id] = [providerName |-> "google", providerJobId |-> "job-1"]
          /\ id \notin retired
    /\ Cardinality(registered) = 2

(***************************************************************************)
(* Properties of the selector                                              *)
(***************************************************************************)
\* The places of the catalog: provider k, model m of it.
places(providers) ==
    UNION { { << k, m >> : m \in 1..Len(providers[k].models) } : k \in 1..Len(providers) }

\* The (provider, model) pair at a place.
pairAt(providers, e) ==
    [provider |-> providers[e[1]], model |-> providers[e[1]].models[e[2]]]

\* The place of a candidate in the iteration order of the catalog: it
\* counts the places before it.
placeOf(providers, candidate) ==
    LET e == CHOOSE e \in places(providers) : pairAt(providers, e) = candidate
    IN  Cardinality({ d \in places(providers) :
                        d[1] < e[1] \/ (d[1] = e[1] /\ d[2] <= e[2]) })

strategyOf(request) == IF request.strategy = Undefined THEN "cost" ELSE request.strategy

\* C14: the candidates of a generate call are the pairs of the catalog whose
\* model is of the type of the request and, when the request has a quality,
\* of that quality; each of them is there once, and nothing else is.
C14_CandidatesAreTheMatchingPairs ==
    \A c \in Callers :
        LET call == calls[c]
            wanted == { e \in places(config) :
                          /\ pairAt(config, e).model.type = call.request.type
                          /\ call.request.quality # Undefined
                                => pairAt(config, e).model.quality = call.request.quality }
        IN  isGenerate(call)
            => /\ Len(call.candidates) = Cardinality(wanted)
               /\ \A e \in wanted :
                     Cardinality({ i \in 1..Len(call.candidates) :
                                     call.candidates[i] = pairAt(config, e) }) = 1

\* A request for text of high quality on the catalog of five text models:
\* the two high ones are the candidates.
C14_Witness ==
    \E c \in Callers :
        /\ isGenerate(calls[c])
        /\ config \in orderings(TiedCatalog)
        /\ calls[c].request.type = "text"
        /\ calls[c].request.quality = "high"
        /\ Len(calls[c].candidates) = 2

\* C15: with the cost strategy, named or by default, the candidates are in
\* non-decreasing order of cost, those of equal cost in the order of the
\* catalog; and when their costs differ pairwise, the list is the same for
\* every order of the providers in the catalog.
C15_CostOrderIsStable ==
    \A c \in Callers :
        LET call == calls[c]
            list == call.candidates
            distinct == \A i, j \in 1..Len(list) :
                           i # j => list[i].model.cost # list[j].model.cost
        IN  (isGenerate(call) /\ call.request.strategy \in {Undefined, "cost"})
            => /\ \A i, j \in 1..Len(list) :
                     i < j => /\ list[i].model.cost <= list[j].model.cost
                              /\ list[i].model.cost = list[j].model.cost
                                    => placeOf(config, list[i]) < placeOf(config, list[j])
               /\ distinct => \A other \in orderings(config) :
                                 getSortedProviders(other, call.request) = list

\* A request that names no strategy, on the catalog in which three of the
\* five text models cost the same.
C15_Witness ==
    \E c \in Callers :
        /\ isGenerate(calls[c])
        /\ calls[c].request.strategy = Undefined
        /\ Len(calls[c].candidates) = 5
        /\ calls[c].candidates[2].model.cost = calls[c].candidates[4].model.cost

\* C16: with the latency strategy, the candidates whose latency is
\* configured come first, in non-decreasing order of latency; those whose
\* latency is not configured come after all of them, in the order of the
\* catalog.
C16_UnknownLatencyGoesLast ==
    \A c \in Callers :
        LET call == calls[c]
            list == call.candidates
            known(i) == list[i].model.avg_latency_ms # NoLatency
        IN  (isGenerate(call) /\ call.request.strategy = "latency")
            => \A i, j \in 1..Len(list) :
                  i < j => /\ known(j) => known(i)
                           /\ (known(i) /\ known(j))
                                 => list[i].model.avg_latency_ms <= list[j].model.avg_latency_ms
                           /\ (~known(i) /\ ~known(j))
                                 => placeOf(config, list[i]) < placeOf(config, list[j])

\* A latency request for text on the catalog in which two of the five text
\* models have no latency: they are the last two.
C16_Witness ==
    \E c \in Callers :
        /\ isGenerate(calls[c])
        /\ calls[c].request.strategy = "latency"
        /\ Len(calls[c].candidates) = 5
        /\ calls[c].candidates[3].model.avg_latency_ms # NoLatency
        /\ calls[c].candidates[4].model.avg_latency_ms = NoLatency
        /\ calls[c].candidates[5].model.avg_latency_ms = NoLatency

\* C17: with the quality strategy, no medium candidate comes before a high
\* one and no low candidate before a medium or high one, and candidates of
\* one tier are in the order of the catalog.
C17_QualityOrderIsStable ==
    \A c \in Callers :
        LET call == calls[c]
            list == call.candidates
            below == { << "medium", "high" >>, << "low", "high" >>, << "low", "medium" >> }
        IN  (isGenerate(call) /\ call.request.strategy = "quality")
            => \A i, j \in 1..Len(list) :
                  i < j => /\ << list[i].model.quality, list[j].model.quality >> \notin below
                           /\ list[i].model.quality = list[j].model.quality
                                 => placeOf(config, list[i]) < placeOf(config, list[j])

\* A quality request for text on the catalog of two high, two medium and
\* one low text model.
C17_Witness ==
    \E c \in Callers :
        /\ isGenerate(calls[c])
        /\ calls[c].request.strategy = "quality"
        /\ Len(calls[c].candidates) = 5
        /\ calls[c].candidates[2].model.quality = "high"
        /\ calls[c].candidates[4].model.quality = "medium"
        /\ calls[c].candidates[5].model.quality = "low"

\* The list is sorted by the comparator of the strategy of the request.
isSorted(list, request) ==
    \A i, j \in 1..Len(list) :
        i < j => compare(strategyOf(request), list[i], list[j]) <= 0

\* C18 as stated: when the catalog has a model of the type of the request,
\* the candidate list is not empty and is sorted by the comparator of the
\* strategy.
C18_TypeMatchGivesCandidates ==
    \A c \in Callers :
        LET call == calls[c] IN
        ( /\ isGenerate(call)
          /\ \E e \in places(config) : pairAt(config, e).model.type = call.request.type )
        => /\ call.candidates # << >>
           /\ isSorted(call.candidates, call.request)

\* C18 as amended: when the catalog has a model of the type of the request
\* that is also of its quality, if the request has one, the candidate list
\* is not empty and is sorted by the comparator of the strategy.
C18_MatchGivesSortedCandidates ==
    \A c \in Callers :
        LET call == calls[c] IN
        ( /\ isGenerate(call)
          /\ \E e \in places(config) :
                /\ pairAt(config, e).model.type = call.request.type
                /\ call.request.quality # Undefined
                      => pairAt(config, e).model.quality = call.request.quality )
        => /\ call.candidates # << >>
           /\ isSorted(call.candidates, call.request)

\* A latency request for text of high quality: two of the text models pass
\* the filter.
C18_Witness ==
    \E c \in Callers :
        /\ isGenerate(calls[c])
        /\ calls[c].request = Request("text", "latency", "high")
        /\ Len(calls[c].candidates) = 2
        /\ calls[c].candidates[1].model.id = "c-2"

(***************************************************************************)
(* Properties of the health gate                                           *)
(***************************************************************************)
\* Caller c takes the step in which it calls a gated method.
gates(c) ==
    /\ gate[c].pc \in {"idle", "done"}
    /\ returned(gate[c])
    /\ gate'[c] # gate[c]

C20_NoEndpointNoProbe ==
    healthCheckEndpoint = ""
    => /\ probes = << >>
       /\ healthStatus = HealthStatus(FALSE, 0)
       /\ \A c \in Callers :
             gate[c].op # "none" => /\ gate[c].pc = "done"
                                    /\ gate[c].isHealthy
                                    /\ ~gate[c].probed

\* Without a health-check path, a stream call and an embed call were let
\* through more than a minute after the adapter was made.
C20_Witness ==
    /\ healthCheckEndpoint = ""
    /\ \E c, d \in Callers :
          /\ gate[c].op = "generateStream" /\ gate[c].isHealthy
          /\ gate[d].op = "embedContent" /\ gate[d].isHealthy
          /\ gate[d].now >= healthCacheTTL + 60000

(***************************************************************************)
(* Properties of CustomAdapter.generate                                    *)
(***************************************************************************)
\* Caller c takes the step in which the health probe it awaits settles
\* with a response that is not ok or with a rejection.
probesUnhealthy(c) ==
    /\ gate[c].pc = "probing" /\ gate'[c].pc = "done"
    /\ healthStatus' = HealthStatus(FALSE, gate[c].now)

\* Caller c takes the step in which it calls a gated method while the cache
\* holds an unhealthy status less than 60 seconds old.
gatesOnUnhealthyCache(c) ==
    /\ gates(c)
    /\ hasHealthCheck(healthCheckEndpoint)
    /\ ~healthStatus.isHealthy
    /\ clock - healthStatus.lastChecked < 60000

\* C21: when the health probe of a generate call answers not ok or raises,
\* or the call finds an unhealthy status cached within the TTL, generate
\* returns in that step a failed result with the error 'Custom server is
\* unhealthy or unreachable.' and has issued no request to the backend.
C21_UnhealthyFailsWithoutRequest ==
    [][ \A c \in Callers :
          (gate'[c].op = "generate" /\ (probesUnhealthy(c) \/ gatesOnUnhealthyCache(c)))
          => /\ gate'[c].result.status = "failed"
             /\ gate'[c].result.error = "Custom server is unhealthy or unreachable."
             /\ gate'[c].result.data = Undefined
             /\ ~gate'[c].requested ]_vars

\* A generate call has failed on the unhealthy status that an earlier probe
\* left in the cache.
C21_Witness ==
    \E c \in Callers :
        /\ gate[c].op = "generate" /\ gate[c].pc = "done"
        /\ ~gate[c].probed
        /\ gate[c].seen.lastChecked > 0 /\ ~gate[c].seen.isHealthy
        /\ gate[c].result.status = "failed"
        /\ Len(probes) = 1

\* A generate call of caller c has returned after the backend answered.
answered(c) ==
    /\ gate[c].op = "generate"
    /\ gate[c].response # NoResponse
    /\ gate[c].result # NoResult

\* C22: every result of CustomAdapter.generate is completed with data and
\* no error, pending with a job id and neither data nor error, or failed
\* with an error and no data.
C22_ResultHasOneShape ==
    \A c \in Callers :
        gate[c].result # NoResult =>
            LET r == gate[c].result
            IN  \/ r.status = "completed" /\ r.data # Undefined /\ r.error = Undefined
                \/ r.status = "pending" /\ r.orchestratorJobId # Undefined
                      /\ r.data = Undefined /\ r.error = Undefined
                \/ r.status = "failed" /\ r.error # Undefined /\ r.data = Undefined

\* The path generate extracts with: the one of the model if it has one,
\* else the one of the provider.
configuredPath(cfg) ==
    IF cfg.modelResponseExtractor # Undefined THEN cfg.modelResponseExtractor
    ELSE cfg.responseExtractor

\* The value at the end of the whole path, undefined as soon as a segment
\* is missing.
RECURSIVE walk(_, _, _)
walk(value, parts, k) ==
    IF k > Len(parts) THEN value
    ELSE IF value.t \in {"object", "array"} THEN walk(JGet(value, parts[k]), parts, k + 1)
    ELSE JUndefined

\* C25: with an extraction path configured, generate returns completed only
\* when the whole path leads to a string in the response, and otherwise
\* returns failed with an error that cites the path configured for the call.
C25_CompletedOnlyAtEndOfPath ==
    \A c \in Callers :
        (answered(c) /\ gate[c].response.kind = "ok"
           /\ configuredPath(customConfig) # Undefined) =>
            LET path == configuredPath(customConfig)
                end == walk(gate[c].response.body, split(path), 1)
                r == gate[c].result
            IN  IF end.t = "string"
                THEN r.status = "completed" /\ r.data = end.v
                ELSE /\ r.status = "failed"
                     /\ r.error = "Response extractor path \"" \o path
                                     \o "\" did not yield a string."

\* C27: when the backend answers pending with a job id, generate returns
\* pending with that job id.
C27_PendingAnswerIsPending ==
    \A c \in Callers :
        (answered(c) /\ gate[c].response = Ok(PendingBody)) =>
            /\ gate[c].result.status = "pending"
            /\ gate[c].result.orchestratorJobId = "custom-123"

(***************************************************************************)
(* Properties of construction and of candidates without an adapter         *)
(***************************************************************************)
\* C23: no orchestrator is constructed from a catalog whose custom provider
\* has no baseUrl.
C23_NoOrchestratorWithoutBaseUrl ==
    \A k \in 1..Len(config) :
        toLowerCase(config[k].name) = "custom" => Truthy(config[k].baseUrl)

\* C24: a generate call invokes only adapters of candidates whose provider
\* has one; when some candidate has an adapter, the first invocation is of
\* the first such candidate, whatever candidates without one precede it;
\* when no candidate has one, the call invokes nothing and returns the
\* failure 'All configured providers failed.'.
C24_MissingAdapterIsSkipped ==
    \A c \in Callers :
        LET call == calls[c]
            hasAdapter(k) == call.candidates[k].provider.name \in DOMAIN adapters
            indices == 1..Len(call.candidates)
        IN  (isGenerate(call) /\ Len(call.candidates) > 0) =>
            /\ \A n \in 1..Len(call.invoked) : hasAdapter(call.invoked[n].candidate)
            /\ (\E k \in indices : hasAdapter(k)) =>
                  /\ call.invoked # << >>
                  /\ hasAdapter(call.invoked[1].candidate)
                  /\ \A k \in 1..(call.invoked[1].candidate - 1) : ~hasAdapter(k)
            /\ (\A k \in indices : ~hasAdapter(k)) =>
                  /\ call.pc = "done"
                  /\ call.result = AllProvidersFailed
                  /\ call.invoked = << >>

\* One call has skipped its first candidate and invoked the adapter of the
\* second; another, all of whose candidates lack an adapter, has failed.
C24_Witness ==
    /\ \E c \in Callers :
          /\ isGenerate(calls[c])
          /\ Len(calls[c].candidates) = 2
          /\ calls[c].candidates[1].provider.name \notin DOMAIN adapters
          /\ calls[c].invoked # << >>
          /\ calls[c].invoked[1].candidate = 2
    /\ \E c \in Callers :
          /\ isGenerate(calls[c]) /\ calls[c].pc = "done"
          /\ Len(calls[c].candidates) = 1
          /\ calls[c].candidates[1].provider.name \notin DOMAIN adapters
          /\ calls[c].invoked = << >>
          /\ calls[c].result.error = "All configured providers failed."

(***************************************************************************)
(* Properties of the request template                                      *)
(***************************************************************************)
\* C26: rendering the template with the quoted placeholders of the model
\* and of the prompt returns, for every prompt and model id, a payload
\* whose model is the model id and whose prompt is the prompt.
C26_QuotedTemplateKeepsTexts ==
    (rendering.pc = "returned" /\ rendering.template = QuotedTemplate) =>
        /\ ~rendering.threw
        /\ DOMAIN rendering.body = { ModelKey, PromptKey }
        /\ rendering.body[ModelKey] = rendering.modelId
        /\ rendering.body[PromptKey] = rendering.prompt

(***************************************************************************)
(* Properties of the Quick Start catalog and of the catalog under          *)
(* selection                                                               *)
(***************************************************************************)
\* A generate call for text that names neither a strategy nor a quality.
isDefaultTextCall(call) ==
    isGenerate(call) /\ call.request = Request("text", Undefined, Undefined)

C30_SelectionLeavesCatalog ==
    [][ /\ config' = config
        /\ \A c \in Callers :
              (makes(c) /\ isGenerate(calls'[c])) =>
                  getSortedProviders(config', calls'[c].request) = calls'[c].candidates
      ]_vars

\* A call whose first candidate stands behind its second in the catalog.
C30_Witness ==
    \E c \in Callers :
        /\ isGenerate(calls[c])
        /\ Len(calls[c].candidates) >= 2
        /\ placeOf(config, calls[c].candidates[1]) > placeOf(config, calls[c].candidates[2])
        /\ config \in SelectorCatalogs

(***************************************************************************)
(* Properties of generateStream                                            *)
(***************************************************************************)
\* What a generateStream call of caller c has yielded is well formed: every
\* element but the last has status streaming, and the call of an unhealthy
\* backend has yielded the one element error and has not fetched.
streamIsWellFormed(c) ==
    LET elements == gate[c].elements IN
    /\ \A k \in 1..Len(elements) :
          elements[k].status \in {"streaming", "completed", "error"}
    /\ \A k \in 1..(Len(elements) - 1) : elements[k].status = "streaming"
    /\ (gate[c].pc = "done" /\ ~gate[c].isHealthy) =>
          /\ elements = << StreamElement("error") >>
          /\ ~gate[c].requested

\* C29: a generateStream call yields elements of status streaming and then
\* one terminal element, completed or error, after which it yields nothing;
\* it comes to that terminal element when the response ends or errors; and
\* for an unhealthy backend it yields the single element error.
C29_StreamEndsWithOneTerminal ==
    /\ [](\A c \in Callers : gate[c].op = "generateStream" => streamIsWellFormed(c))
    /\ \A c \in Callers :
          (gate[c].op = "generateStream") ~> returned(gate[c])

\* One stream has ended with an error after a chunk, and the stream of a
\* call that found the backend unhealthy is the single element error.
C29_Witness ==
    /\ \E c \in Callers :
          /\ gate[c].op = "generateStream"
          /\ Len(gate[c].elements) = 2
          /\ gate[c].elements[1].status = "streaming"
          /\ gate[c].elements[2].status = "error"
    /\ \E c \in Callers :
          /\ gate[c].op = "generateStream" /\ gate[c].pc = "done"
          /\ ~gate[c].isHealthy
          /\ gate[c].elements = << StreamElement("error") >>

(***************************************************************************)
(* Properties of the order of invocations                                  *)
(***************************************************************************)
\* C31: the invocations of a generate call are of candidates further and
\* further down the list that selection returned for its request, so none
\* is invoked twice; every invocation but the one the call awaits has
\* settled, so an invocation starts only when the one before it has.
C31_InvocationsAreSequential ==
    \A c \in Callers :
        LET call == calls[c] IN
        isGenerate(call) =>
            /\ call.candidates = getSortedProviders(config, call.request)
            /\ \A j, k \in 1..Len(call.invoked) :
                  j < k => call.invoked[j].candidate < call.invoked[k].candidate
            /\ \A k \in 1..Len(call.invoked) :
                  /\ call.invoked[k].adapter
                        = call.candidates[call.invoked[k].candidate].provider.name
                  /\ call.invoked[k].arg
                        = call.candidates[call.invoked[k].candidate].model.id
            /\ Len(call.outcomes)
                  = Len(call.invoked) - (IF call.pc = "awaitGenerate" THEN 1 ELSE 0)
            /\ call.pc = "awaitGenerate" => call.i = Last(call.invoked).candidate

\* A call awaits its third invocation after two have settled.
C31_Witness ==
    \E c \in Callers :
        /\ isGenerate(calls[c]) /\ calls[c].pc = "awaitGenerate"
        /\ Len(calls[c].invoked) = 3
        /\ Len(calls[c].outcomes) = 2

\* The adapter returned pending without a job id.
returnedPendingWithoutJob(outcome) ==
    /\ ~outcome.raised
    /\ outcome.result.status = "pending"
    /\ ~Truthy(outcome.result.orchestratorJobId)

\* C33: a generate call that has returned pending returned the key under
\* which the registry, as the call returns, holds the provider and the job
\* id of the adapter's answer; and after an adapter answered pending
\* without a job id the call has gone on to the next candidate, or has
\* failed when there is none, as after a failure.
C33_PendingIsRegistered ==
    \A c \in Callers :
        LET call == calls[c] IN
        isGenerate(call) =>
            /\ (call.pc = "done" /\ call.result.status = "pending") =>
                  /\ returnedJob(Last(call.outcomes))
                  /\ call.result.orchestratorJobId \in DOMAIN activeJobs
                  /\ activeJobs[call.result.orchestratorJobId]
                        = registeredJob(call.candidates[call.i].provider.name,
                                        Last(call.outcomes).result)
            /\ (call.outcomes # << >> /\ returnedPendingWithoutJob(Last(call.outcomes))) =>
                  \/ /\ call.pc = "awaitGenerate"
                     /\ Len(call.invoked) = Len(call.outcomes) + 1
                  \/ /\ call.pc = "done"
                     /\ call.result = AllProvidersFailed

\* A call awaits its second candidate after the first answered pending
\* without a job id, while another has returned pending for a job.
C33_Witness ==
    /\ \E c \in Callers :
          /\ isGenerate(calls[c]) /\ calls[c].pc = "awaitGenerate"
          /\ Len(calls[c].outcomes) = 1
          /\ returnedPendingWithoutJob(calls[c].outcomes[1])
    /\ \E c \in Callers :
          /\ isGenerate(calls[c]) /\ calls[c].pc = "done"
          /\ calls[c].result.status = "pending"
          /\ calls[c].result.orchestratorJobId \in DOMAIN activeJobs

(***************************************************************************)
(* Properties of the simulated job stores                                  *)
(***************************************************************************)
\* The status checks of the job's id since the job was started answered
\* with these statuses, in this order.
answersOf(k) == jobLog[k].answers

\* A later generate of the same adapter was given the same id.
startedAgain(k) ==
    \E later \in (k + 1)..Len(jobLog) :
        /\ jobLog[later].adapter = jobLog[k].adapter
        /\ jobLog[later].id = jobLog[k].id

\* C32: of the status checks of a video job that OpenAIAdapter.generate
\* started, the first and the second answer pending and the third answers
\* completed, after which the store of the adapter does not hold the job.
C32_ThirdPollCompletes ==
    \A k \in 1..Len(jobLog) :
        jobLog[k].adapter = "openai" =>
            /\ Len(answersOf(k)) >= 1 => answersOf(k)[1] = "pending"
            /\ Len(answersOf(k)) >= 2 => answersOf(k)[2] = "pending"
            /\ Len(answersOf(k)) >= 3 => answersOf(k)[3] = "completed"
            /\ (Len(answersOf(k)) >= 3 /\ ~startedAgain(k)) =>
                  jobLog[k].id \notin DOMAIN jobStores.openai

\* The error of checkJobStatus of the OpenAI and of the Google adapter for
\* an id its store does not hold.
isProviderJobNotFound(result) ==
    /\ result.status = "failed"
    /\ result.error \in { "Job not found on OpenAI provider.",
                          "Job not found on Google provider." }

\* A status check of the job registered under the id answered completed.
completedAtProvider(orchestratorJobId) ==
    \E k \in 1..Len(jobLog) :
        /\ createOrchestratorJobId(jobLog[k].adapter, jobLog[k].id) = orchestratorJobId
        /\ \E n \in 1..Len(answersOf(k)) : answersOf(k)[n] = "completed"

\* C34: no getJobResult call returns the failure of the provider for a job
\* that has completed: a call for the id of a completed job returns
\* completed or the orchestrator's failure for an id it does not hold.
C34_NoProviderFailureOnceCompleted ==
    \A c \in Callers :
        (isPoll(calls[c]) /\ calls[c].pc = "done" /\ completedAtProvider(calls[c].jobId)) =>
            ~isProviderJobNotFound(calls[c].result)

\* C40: the video jobs that generate of one adapter has started have ids
\* that differ from one another.
C40_JobIdsAreDistinct ==
    \A j, k \in 1..Len(jobLog) :
        (j # k /\ jobLog[j].adapter = jobLog[k].adapter) => jobLog[j].id # jobLog[k].id

probing == { c \in DOMAIN gate : gate[c].pc = "probing" }

\* C37: at most one fetch of the health endpoint is awaited at any time,
\* so calls that overlap while the cache is expired issue one probe
\* together.
C37_OneProbeInFlight == Cardinality(probing) <= 1

\* C38: lastChecked never decreases, so no write of healthStatus replaces
\* the outcome of a probe that started later with the outcome of a probe
\* that started earlier.
C38_LastCheckedNeverDecreases ==
    [][healthStatus'.lastChecked >= healthStatus.lastChecked]_vars

(***************************************************************************)
(* Properties of the lookup of adapters                                    *)
(***************************************************************************)
\* The candidates the loop of the call has come to.
reachedUpTo(call) ==
    IF call.pc = "done" /\ call.result = AllProvidersFailed THEN Len(call.candidates)
    ELSE call.i

\* C39: every candidate the loop of a generate call has come to, and whose
\* descriptor had an adapter constructed for it, was dispatched to the
\* adapter that was constructed from that descriptor.
C39_DispatchedToOwnAdapter ==
    \A c \in Callers :
        LET call == calls[c] IN
        isGenerate(call) =>
            \A k \in 1..reachedUpTo(call) :
                AdapterKey(call.candidates[k].provider) # Undefined =>
                    \E n \in 1..Len(call.invoked) :
                        /\ call.invoked[n].candidate = k
                        /\ adapters[call.invoked[n].adapter].provider
                              = call.candidates[k].provider

(***************************************************************************)
(* Properties of jobs under repeated polling                               *)
(***************************************************************************)
\* The registry holds the id, for a provider whose adapter has a
\* checkJobStatus method.
registeredWithStatusChecks(id) ==
    /\ id \in DOMAIN activeJobs
    /\ activeJobs[id].providerName \in DOMAIN adapters
    /\ adapters[activeJobs[id].providerName].checkJobStatus

============================================================================
